---- MODULE Spec2Model ----
(***************************************************************************)
(* Skill tree: the skill data model (SkillData), the progress tracker      *)
(* (UserProgress), the application handlers (SkillTreeApp) and the layout  *)
(* engines of SkillTree.                                                   *)
(*                                                                         *)
(* Skills are numbered 1..n in declaration order (the insertion order of   *)
(* the skills Map); an identifier outside 1..n names no skill.             *)
(***************************************************************************)
EXTENDS Integers, Sequences, FiniteSets, TLC

(***************************************************************************)
(* Bounds of the model.                                                    *)
(***************************************************************************)
MaxImportEntries == 2

MaxRuns == 2
\* restart() is called at most this often on one simulation
MaxRestarts == 1
\* tick() is called directly at most this often on one simulation
MaxDirectTicks == 2
\* addSkill is given skill_ids up to this one
MaxSkills == 4
\* restart() is called at most this often where it is called on a running
\* simulation too
MaxRunningRestarts == 2

(***************************************************************************)
(* Numbers.  The program computes in floating point; the model computes    *)
(* in fixed point: lengths and forces in hundredths of a pixel, angles in  *)
(* thousandths of a radian, factors in thousandths.                        *)
(***************************************************************************)
Abs(a) == IF a < 0 THEN -a ELSE a
Max(a, b) == IF a >= b THEN a ELSE b
Min(a, b) == IF a <= b THEN a ELSE b

\* a / b rounded toward zero, b > 0
Div(a, b) == IF a >= 0 THEN a \div b ELSE -((-a) \div b)

\* a * b / c for a, b >= 0 and c > 0, ordered so that no product leaves 32 bits
MulDiv(a, b, c) ==
    IF b = 0 \/ a <= 2000000000 \div b THEN (a * b) \div c
    ELSE IF a >= b THEN (a \div c) * b ELSE (b \div c) * a

\* F applied to the value of e, which is computed once
WithValue(F(_), e) == CHOOSE r \in {F(v) : v \in {e}} : TRUE

\* Math.sqrt on 0..2^31-1, rounded down
RECURSIVE SqrtBetween(_, _, _)
SqrtBetween(n, lo, hi) ==
    IF hi - lo <= 1 THEN lo
    ELSE LET Half(mid) == IF mid * mid <= n THEN SqrtBetween(n, mid, hi)
                          ELSE SqrtBetween(n, lo, mid)
         IN  WithValue(Half, (lo + hi) \div 2)

Sqrt(n) == WithValue(LAMBDA v : SqrtBetween(v, 0, 46341), n)

\* Math.sqrt(dx * dx + dy * dy); operands too large to square are scaled first
Hypot(dx, dy) ==
    LET k == Max(Abs(dx), Abs(dy)) \div 30000 + 1
    IN  k * Sqrt(Div(dx, k) * Div(dx, k) + Div(dy, k) * Div(dy, k))

\* Math.sin and Math.cos of an angle in milliradians, times 1000
\* (16 a (pi - a) / (5 pi^2 - 4 a (pi - a)) on a half turn, rounded to the
\* nearest thousandth: the sine of a quarter turn is 1)
HalfTurn == 3142
FullTurn == 6283

SinHalf(a) ==
    LET p == (a * (HalfTurn - a)) \div 100
    IN  (16000 * p + (493608 - 4 * p) \div 2) \div (493608 - 4 * p)

Sin1000(angle) ==
    LET a == angle % FullTurn IN
    IF a <= HalfTurn THEN SinHalf(a) ELSE -SinHalf(Min(a - HalfTurn, HalfTurn))

Cos1000(angle) == Sin1000(angle + 1571)

\* seededRandom(): the next randomState, and the value returned for a state,
\* in thousandths.  (randomState * 9301 + 49297) % 233280 is computed on the
\* thousands and the rest of randomState separately: 9301000 % 233280 = 203080.
NextRandom(rs) == ((rs \div 1000) * 203080 + (rs % 1000) * 9301 + 49297) % 233280

RandomValue(rs) == (rs * 1000) \div 233280

RECURSIVE RandomAfter(_, _)
RandomAfter(rs, k) == IF k = 0 THEN rs ELSE RandomAfter(NextRandom(rs), k - 1)

\* (seededRandom() - 0.5) * amplitude, for the state rs the call leaves
Jitter(rs, amplitude) == Div((RandomValue(rs) - 500) * amplitude, 1000)

\* Math.random() * Math.PI * 2: any angle of a turn; the model takes four
RandomAngles == {0, 1571, 3142, 4712}

(***************************************************************************)
(* Layout settings of SkillTree (constructor), in hundredths of a pixel.   *)
(***************************************************************************)
nodeRadius == 3000
minDistance == 8000
categorySpacing == 40000
maxIterations == 100
canvasWidth == 160000
canvasHeight == 120000
goldenAngle == 2400
seed == 42

Clamp(lo, hi, v) == Max(lo, Min(hi, v))

(***************************************************************************)
(* Skill definitions.  Each graph is a small instance of the shapes found  *)
(* in loadInitialSkills: chains inside one category, a prerequisite in     *)
(* another category, an unlock that the unlocked skill does not list back  *)
(* as a prerequisite, skills sharing one declared position.                *)
(***************************************************************************)
UnknownSkill == 9

\* a category identifier that names none of the categories of initializeCategories
UnknownCategory == 8

NoSkills == << >>

Pt(x, y) == [x |-> x, y |-> y]

SkillDef(c, pts, pre, unl, p) ==
    [category |-> c, points |-> pts, prerequisites |-> pre, unlocks |-> unl, position |-> p]

\* Positions are in hundredths of a pixel.
GraphChain ==
    << SkillDef(1, 3, NoSkills, <<2>>, Pt(25000, 15000)),
       SkillDef(1, 5, <<1>>, <<3>>, Pt(20000, 20000)),
       SkillDef(1, 4, <<2>>, NoSkills, Pt(30000, 20000)) >>

\* family_communication_001 -> relationships_empathy_001 -> relationships_networking_001;
\* the two skills of the second category are declared above the canvas padding
\* (addSkill takes any position)
GraphCross ==
    << SkillDef(1, 3, NoSkills, <<2>>, Pt(25000, 15000)),
       SkillDef(2, 4, <<1>>, <<3>>, Pt(105000, 1500)),
       SkillDef(2, 6, <<2>>, NoSkills, Pt(100000, 2000)) >>

\* two skills behind a prerequisite of another category, declared at one
\* position; the second also lists a prerequisite that names no skill
GraphSamePos ==
    << SkillDef(1, 3, NoSkills, <<2, 3>>, Pt(25000, 15000)),
       SkillDef(2, 5, <<1>>, NoSkills, Pt(55000, 35000)),
       SkillDef(2, 4, <<1, UnknownSkill>>, NoSkills, Pt(55000, 35000)) >>

\* a diamond and an unlock that is not listed back as a prerequisite
GraphDiamond ==
    << SkillDef(1, 3, NoSkills, <<2, 3>>, Pt(25000, 15000)),
       SkillDef(1, 5, <<1>>, <<4>>, Pt(20000, 20000)),
       SkillDef(1, 4, <<1>>, <<4, 2>>, Pt(30000, 20000)),
       SkillDef(1, 6, <<2, 3>>, NoSkills, Pt(25000, 25000)) >>

\* a cycle of unlock edges behind a root
GraphCycle ==
    << SkillDef(1, 3, NoSkills, <<2>>, Pt(25000, 15000)),
       SkillDef(1, 5, <<1>>, <<3>>, Pt(20000, 20000)),
       SkillDef(1, 4, <<2>>, <<2>>, Pt(30000, 20000)) >>

\* two skills that are each other's prerequisite and unlock, 115 px apart
GraphLoop ==
    << SkillDef(1, 3, NoSkills, NoSkills, Pt(25000, 15000)),
       SkillDef(2, 5, <<3>>, <<3>>, Pt(50000, 40000)),
       SkillDef(2, 4, <<2>>, <<2>>, Pt(61500, 40000)) >>

\* a skill added with a category identifier that names no category
GraphStray ==
    << SkillDef(1, 3, NoSkills, <<2>>, Pt(25000, 15000)),
       SkillDef(1, 5, <<1>>, NoSkills, Pt(20000, 20000)),
       SkillDef(UnknownCategory, 4, NoSkills, NoSkills, Pt(70000, 50000)) >>

Graphs ==
    {GraphChain, GraphCross, GraphSamePos, GraphDiamond, GraphCycle, GraphLoop, GraphStray}

VARIABLES
    skillDefs,        \* the static definitions handed to addSkill, in order
    completed,        \* SkillData.skills[id].completed
    dateCompleted,    \* SkillData.skills[id].dateCompleted (0 = null, 1 = a date)
    unlocked,         \* SkillData.skills[id].unlocked
    completedSkills,  \* UserProgress.progress.completedSkills
    totalPoints,      \* UserProgress.progress.totalPoints
    currentModal,     \* SkillTreeApp.currentModal (0 = none)
    lastCall,         \* the call made by the last step, with its argument
    lastReturn,       \* what that call returned
    engine,           \* the SkillTree class at work
    pc,               \* the stage calculateLayout has reached
    position,         \* skill.position of every skill
    categoryPosition, \* category.position of every category
    connectionPaths,  \* SkillTree.connectionPaths, keyed by <<from, to>>
    randomState,      \* randomState of growMyceliumNetworks' seededRandom
    categoryIndex,    \* the category categories.forEach is at
    myceliumThreads,  \* the queue of growMyceliumNetworks
    positioned,       \* the Set positioned of the category at work
    placements,       \* how often this run's growth assigned skill.position
    growthSteps,      \* how many threads this run's growth has dequeued
    iteration,        \* outer iterations of the force loop done in this run
    hasOverlaps,      \* hasOverlaps of the last outer iteration
    totalOverlapForce,\* totalOverlapForce of the last outer iteration
    run,              \* the number of the calculateLayout run
    runKind,          \* "first", "again" (same SkillTree) or "fresh" (new objects)
    firstRun,         \* what the run before this one produced
    usedMathRandom,   \* Math.random() has been called since the page was loaded
    pathTimer,        \* the timer of optimizeConnectionPaths is set
    callStack,        \* the calls of layoutSkillBranch in progress, innermost last
    rootCalls,        \* the root skills rootSkills.forEach has yet to visit
    nodes,            \* SkillTree.nodes
    simulation,       \* SkillTree.simulation is set
    alpha,            \* ForceSimulation.alpha, in millionths
    stopped,          \* ForceSimulation.stopped
    tickPending,      \* the timer held by ForceSimulation.stepper is waiting
    threw,            \* the last call ended by throwing
    categoryProgress, \* UserProgress.progress.categoryProgress
    stored,           \* localStorage's item skillTreeProgress
    impl,             \* the ForceSimulation implementation at work
    simNodes,         \* ForceSimulation.nodes
    simAlpha,         \* ForceSimulation.alpha, in millionths
    alphaDecay,       \* ForceSimulation's alpha decay rate, in thousandths
    withCharge,       \* a many-body force is registered
    withCollide,      \* a collision force is registered
    simStopped,       \* ForceSimulation.stopped (js)
    timers,           \* timer callbacks waiting (libs: the interval is set)
    stepper,          \* this.stepper (js) or this.timer (libs) is not null
    halted,           \* stop() has returned and restart() was not called since
    fired,            \* the listeners the last step invoked
    endCount,         \* 'end' events since the last restart()
    restarts,         \* calls of restart() so far
    directTicks,      \* direct calls of tick() so far
    simCall           \* the method of the simulation the last step ran

dataVars == <<completed, dateCompleted, unlocked>>
progressVars == <<completedSkills, totalPoints, categoryProgress, stored>>
appVars == <<skillDefs, completed, dateCompleted, unlocked, completedSkills,
             totalPoints, categoryProgress, stored, currentModal, lastCall, lastReturn>>
growthVars == <<randomState, categoryIndex, myceliumThreads, positioned, placements,
                growthSteps>>
forceVars == <<iteration, hasOverlaps, totalOverlapForce>>
runVars == <<run, runKind, firstRun>>
branchVars == <<callStack, rootCalls>>
simVars == <<nodes, simulation, alpha, stopped, tickPending, threw>>
layoutVars == <<engine, pc, position, categoryPosition, connectionPaths, randomState,
                categoryIndex, myceliumThreads, positioned, placements, growthSteps,
                iteration, hasOverlaps, totalOverlapForce, run, runKind, firstRun,
                usedMathRandom, pathTimer, branchVars, simVars>>
forceSimVars == <<impl, simNodes, simAlpha, alphaDecay, withCharge, withCollide,
                  simStopped, timers, stepper, halted, fired, endCount, restarts,
                  directTicks, simCall>>
vars == <<appVars, layoutVars, forceSimVars>>

Ids == 1..Len(skillDefs)
IdsOf(g) == 1..Len(g)
CallIds == Ids \cup {UnknownSkill}

SeqToSet(s) == {s[i] : i \in 1..Len(s)}

(***************************************************************************)
(* SkillData                                                               *)
(***************************************************************************)

\* isSkillUnlocked(skill) with no userProgress: the default check.
isSkillUnlocked(defs, comp, s) ==
    \/ Len(defs[s].prerequisites) = 0
    \/ \A i \in 1..Len(defs[s].prerequisites) :
           LET p == defs[s].prerequisites[i] IN p \in IdsOf(defs) /\ comp[p]

\* updateUnlockedSkills: every skill's flag is recomputed.
updateUnlockedSkills(defs, comp) ==
    [s \in IdsOf(defs) |-> isSkillUnlocked(defs, comp, s)]

\* addSkill for every definition of loadInitialSkills, in order: the skill is
\* stored with completed = false and unlocked computed against the skills
\* added so far, none of which is completed.
LoadInitialSkills(g) ==
    /\ skillDefs = g
    /\ completed = [s \in IdsOf(g) |-> FALSE]
    /\ dateCompleted = [s \in IdsOf(g) |-> 0]
    /\ unlocked = [s \in IdsOf(g) |->
                     isSkillUnlocked(g, [t \in IdsOf(g) |-> FALSE], s)]

\* SkillData.completeSkill without the check of the unlocked flag.
completeSkillAllowedNoLockCheck(id) == id \in Ids

completeSkillAllowed(id) == id \in Ids /\ unlocked[id]

\* SkillData.completeSkill(id): its effect on the skills map and its result.
SkillDataComplete(id, ret) ==
    IF completeSkillAllowed(id)
    THEN /\ completed' = [completed EXCEPT ![id] = TRUE]
         /\ dateCompleted' = [dateCompleted EXCEPT ![id] = 1]
         /\ unlocked' = updateUnlockedSkills(skillDefs, completed')
         /\ ret = TRUE
    ELSE /\ UNCHANGED dataVars
         /\ ret = FALSE

\* SkillData.uncompleteSkill refusing a skill that a completed skill lists as
\* a prerequisite
SkillDataUncompleteUnlessNeeded(id, ret) ==
    IF /\ id \in Ids
       /\ ~\E d \in Ids : completed[d] /\ id \in SeqToSet(skillDefs[d].prerequisites)
    THEN /\ completed' = [completed EXCEPT ![id] = FALSE]
         /\ dateCompleted' = [dateCompleted EXCEPT ![id] = 0]
         /\ unlocked' = updateUnlockedSkills(skillDefs, completed')
         /\ ret = TRUE
    ELSE /\ UNCHANGED dataVars
         /\ ret = FALSE

\* SkillData.uncompleteSkill(id)
SkillDataUncomplete(id, ret) ==
    IF id \in Ids
    THEN /\ completed' = [completed EXCEPT ![id] = FALSE]
         /\ dateCompleted' = [dateCompleted EXCEPT ![id] = 0]
         /\ unlocked' = updateUnlockedSkills(skillDefs, completed')
         /\ ret = TRUE
    ELSE /\ UNCHANGED dataVars
         /\ ret = FALSE

CompleteSkill(id) ==
    /\ \E ret \in BOOLEAN : SkillDataComplete(id, ret) /\ lastReturn' = ret
    /\ lastCall' = <<"completeSkill", id>>
    /\ UNCHANGED <<skillDefs, progressVars, currentModal, layoutVars, forceSimVars>>

UncompleteSkill(id) ==
    /\ \E ret \in BOOLEAN : SkillDataUncomplete(id, ret) /\ lastReturn' = ret
    /\ lastCall' = <<"uncompleteSkill", id>>
    /\ UNCHANGED <<skillDefs, progressVars, currentModal, layoutVars, forceSimVars>>

\* The argument of importData: whether it has a version and a skills object,
\* and the entries of skills in key order.  An entry's value is an object
\* {completed, dateCompleted} or null.
ImportEntry == [id : CallIds, value : {"completed", "notCompleted", "null"}]

ImportEntries == UNION {[1..k -> ImportEntry] : k \in 0..MaxImportEntries}

ImportedData ==
    {[version |-> FALSE, skills |-> TRUE, entries |-> << >>],
     [version |-> TRUE, skills |-> FALSE, entries |-> << >>]}
    \cup [version : {TRUE}, skills : {TRUE}, entries : ImportEntries]

\* The loop over Object.entries(importedData.skills), from entry i on.  Reading
\* progress.completed of a null entry of an existing skill throws; the entries
\* before it have been applied.
RECURSIVE ApplyImport(_, _, _, _)
ApplyImport(entries, i, comp, date) ==
    IF i > Len(entries)
    THEN [completed |-> comp, dateCompleted |-> date, threw |-> FALSE]
    ELSE LET e == entries[i] IN
         IF e.id \notin Ids
         THEN ApplyImport(entries, i + 1, comp, date)
         ELSE IF e.value = "null"
         THEN [completed |-> comp, dateCompleted |-> date, threw |-> TRUE]
         ELSE ApplyImport(entries, i + 1,
                          [comp EXCEPT ![e.id] = (e.value = "completed")],
                          [date EXCEPT ![e.id] = IF e.value = "completed" THEN 1 ELSE 0])

\* SkillData.importData(importedData)
ImportData(d) ==
    /\ IF ~d.skills \/ ~d.version
       THEN /\ UNCHANGED dataVars
            /\ lastReturn' = FALSE
       ELSE LET r == ApplyImport(d.entries, 1, completed, dateCompleted) IN
            /\ completed' = r.completed
            /\ dateCompleted' = r.dateCompleted
            /\ unlocked' = IF r.threw THEN unlocked
                           ELSE updateUnlockedSkills(skillDefs, r.completed)
            /\ lastReturn' = ~r.threw
    /\ lastCall' = <<"importData", 0>>
    /\ UNCHANGED <<skillDefs, progressVars, currentModal, layoutVars, forceSimVars>>

\* SkillData.resetProgress()
ResetProgress ==
    /\ completed' = [s \in Ids |-> FALSE]
    /\ dateCompleted' = [s \in Ids |-> 0]
    /\ unlocked' = updateUnlockedSkills(skillDefs, completed')
    /\ lastCall' = <<"resetProgress", 0>>
    /\ lastReturn' = TRUE
    /\ UNCHANGED <<skillDefs, progressVars, currentModal, layoutVars, forceSimVars>>

\* null or a missing field, and a value that is there
NoValue == << >>
Value(v) == <<v>>
IsSet(v) == v # NoValue

(***************************************************************************)
(* UserProgress: what it keeps in local storage                            *)
(***************************************************************************)
\* a categoryProgress entry, without its time stamps and its percentage
CategoryStats(completedCount, totalSkills, points) ==
    [completedCount |-> completedCount, totalSkills |-> totalSkills, points |-> points]

\* categoryProgress: {}
NoCategoryProgress == [c \in {} |-> CategoryStats(0, 0, 0)]

\* updateCategoryProgress(categoryId): an entry is made when there is none
updateCategoryProgress(cp, c) ==
    IF c \in DOMAIN cp THEN cp
    ELSE [d \in DOMAIN cp \cup {c} |-> IF d = c THEN CategoryStats(0, 0, 0) ELSE cp[d]]

\* what JSON.stringify(this.progress) puts into local storage
StoredProgress(version, cs, tp, cp) ==
    [kind |-> "json", version |-> version, completedSkills |-> cs, totalPoints |-> tp,
     categoryProgress |-> cp]

\* saveProgress(): the item is replaced by the progress as it will be
SaveProgress == stored' = StoredProgress("1.0.0", completedSkills', totalPoints', categoryProgress')

\* isValidVersion / isVersionCompatible: the same major version
isValidVersion(version) == version = "1.0.0"

(***************************************************************************)
(* UserProgress                                                            *)
(***************************************************************************)

\* UserProgress.completeSkill without the test of completedSkills.includes
UserProgressCompleteAlways(id) ==
    /\ completedSkills' = Append(completedSkills, id)
    /\ totalPoints' = totalPoints + skillDefs[id].points
    /\ categoryProgress' = updateCategoryProgress(categoryProgress, skillDefs[id].category)
    /\ SaveProgress

\* UserProgress.completeSkill(skillId, skillData)
UserProgressComplete(id) ==
    IF id \notin SeqToSet(completedSkills)
    THEN /\ completedSkills' = Append(completedSkills, id)
         /\ totalPoints' = totalPoints + skillDefs[id].points
         /\ categoryProgress' = updateCategoryProgress(categoryProgress, skillDefs[id].category)
         /\ SaveProgress
    ELSE UNCHANGED progressVars

\* UserProgress.uncompleteSkill(skillId, skillData): indexOf and splice
IndexOf(s, e) ==
    IF e \in SeqToSet(s) THEN CHOOSE i \in 1..Len(s) :
                                  s[i] = e /\ \A j \in 1..(i - 1) : s[j] # e
    ELSE 0

UserProgressUncomplete(id) ==
    LET index == IndexOf(completedSkills, id) IN
    IF index > 0
    THEN /\ completedSkills' = SubSeq(completedSkills, 1, index - 1)
                                 \o SubSeq(completedSkills, index + 1, Len(completedSkills))
         /\ totalPoints' = totalPoints - skillDefs[id].points
         /\ categoryProgress' = updateCategoryProgress(categoryProgress, skillDefs[id].category)
         /\ SaveProgress
    ELSE UNCHANGED progressVars

(***************************************************************************)
(* SkillTreeApp                                                            *)
(***************************************************************************)

\* showSkillModal(skill) / hideSkillModal()
ShowSkillModal(id) ==
    /\ currentModal' = id
    /\ lastCall' = <<"showSkillModal", id>>
    /\ lastReturn' = TRUE
    /\ UNCHANGED <<skillDefs, dataVars, progressVars, layoutVars, forceSimVars>>

HideSkillModal ==
    /\ currentModal # 0
    /\ currentModal' = 0
    /\ lastCall' = <<"hideSkillModal", 0>>
    /\ lastReturn' = TRUE
    /\ UNCHANGED <<skillDefs, dataVars, progressVars, layoutVars, forceSimVars>>

\* handleSkillComplete(): the skill of the open modal is completed in the data
\* model and, when that succeeds, in the user progress.
HandleSkillComplete ==
    /\ currentModal # 0
    /\ \E success \in BOOLEAN :
          /\ SkillDataComplete(currentModal, success)
          /\ IF success THEN UserProgressComplete(currentModal)
                        ELSE UNCHANGED progressVars
          /\ lastReturn' = success
    /\ lastCall' = <<"handleSkillComplete", currentModal>>
    /\ UNCHANGED <<skillDefs, currentModal, layoutVars, forceSimVars>>

\* handleSkillUncomplete()
HandleSkillUncomplete ==
    /\ currentModal # 0
    /\ \E success \in BOOLEAN :
          /\ SkillDataUncomplete(currentModal, success)
          /\ IF success THEN UserProgressUncomplete(currentModal)
                        ELSE UNCHANGED progressVars
          /\ lastReturn' = success
    /\ lastCall' = <<"handleSkillUncomplete", currentModal>>
    /\ UNCHANGED <<skillDefs, currentModal, layoutVars, forceSimVars>>

(***************************************************************************)
(* SkillTree: layout.  engine names the SkillTree class at work:           *)
(*   "mycelium"  seed points, mycelium growth, applyForceDirectedLayout,   *)
(*               optimizeConnectionPaths (unnamed/part_004)                *)
(* calculateLayout runs synchronously; the model takes it stage by stage  *)
(* (pc), one step per dequeued thread of the growth loop and one per outer *)
(* iteration of the force loop, and no other handler runs in between.      *)
(***************************************************************************)
\* initializeCategories creates seven categories
NumCategories == 7

Categories == 1..NumCategories

\* category.position of initializeCategories
CategoryData ==
    << Pt(20000, 15000), Pt(60000, 15000), Pt(100000, 15000), Pt(20000, 40000),
       Pt(60000, 40000), Pt(100000, 40000), Pt(60000, 65000) >>

DataPositions(g) == [s \in IdsOf(g) |-> g[s].position]

IdSeq == [i \in 1..Len(skillDefs) |-> i]

\* getSkillsByCategory(categoryId), in declaration order
getSkillsByCategory(c) == SelectSeq(IdSeq, LAMBDA s : skillDefs[s].category = c)

\* skills without prerequisites
IsRootSkill(s) == Len(skillDefs[s].prerequisites) = 0

AddPt(p, q) == Pt(p.x + q.x, p.y + q.y)
SubPt(p, q) == Pt(p.x - q.x, p.y - q.y)
NegPt(p) == Pt(-p.x, -p.y)
ZeroPt == Pt(0, 0)

\* the sum of the points f[1], ..., f[k]
RECURSIVE SumPts(_, _)
SumPts(f, k) == IF k = 0 THEN ZeroPt ELSE AddPt(SumPts(f, k - 1), f[k])

\* v * factor / 1000 for a factor in thousandths, of any sign
Scale(v, factor) ==
    IF (v >= 0) = (factor >= 0) THEN MulDiv(Abs(v), Abs(factor), 1000)
    ELSE -MulDiv(Abs(v), Abs(factor), 1000)

\* d / distance in thousandths, distance > 0
Unit(d, distance) == Div(d * 1000, distance)

(***************************************************************************)
(* Phase 1 (part_004): establishCategorySeedPoints                         *)
(***************************************************************************)
SeedPointNoClamp(index) ==
    LET r == (Sqrt((index + 1) * 10000) * categorySpacing) \div 300
        theta == index * goldenAngle
        organicOffsetX == Jitter(RandomAfter(seed, 2 * index + 1), 15000)
        organicOffsetY == Jitter(RandomAfter(seed, 2 * index + 2), 15000)
    IN  Pt(canvasWidth \div 2 + Div(Cos1000(theta) * r, 1000) + organicOffsetX,
           canvasHeight \div 2 + Div(Sin1000(theta) * r, 1000) + organicOffsetY)

\* the position given to the category at `index` (0-based) of getAllCategories()
SeedPoint(index) ==
    LET p == SeedPointNoClamp(index) IN
    Pt(Clamp(20000, canvasWidth - 20000, p.x), Clamp(20000, canvasHeight - 20000, p.y))

establishCategorySeedPoints == [c \in Categories |-> SeedPoint(c - 1)]

(***************************************************************************)
(* Phase 2 (part_004): growMyceliumNetworks                                *)
(***************************************************************************)
calculateEnhancedMyceliumGrowth(parentPos, angle, depth, categoryCenter, threadId, rs) ==
    LET r1 == NextRandom(rs)
        r2 == NextRandom(r1)
        r3 == NextRandom(r2)
        r4 == NextRandom(r3)
        baseDistance == (minDistance * (12 + depth * 3)) \div 10
        distanceVariation == Jitter(r1, 3000)
        distance == Max(minDistance, baseDistance + distanceVariation)
        meanderingStrength == (400 * (10 + depth)) \div 10
        meander == Jitter(r2, meanderingStrength)
        actualAngle == angle + meander
        environmentX == Div(Cos1000(threadId * 1700) * distance, 5000)
        environmentY == Div(Sin1000(threadId * 1700) * distance, 5000)
        wanderStrength == (250 * (100 - depth * 5)) \div 100
        x == parentPos.x + Div(Cos1000(actualAngle) * distance, 1000) + environmentX
               + Scale(Jitter(r3, distance), wanderStrength)
        y == parentPos.y + Div(Sin1000(actualAngle) * distance, 1000) + environmentY
               + Scale(Jitter(r4, distance), wanderStrength)
        toCenterX == categoryCenter.x - x
        toCenterY == categoryCenter.y - y
        centerDistance == Hypot(toCenterX, toCenterY)
        pulledX == IF centerDistance > 35000 THEN x + Div(toCenterX * 8, 100) ELSE x
        pulledY == IF centerDistance > 35000 THEN y + Div(toCenterY * 8, 100) ELSE y
    IN  Pt(Clamp(nodeRadius * 2, canvasWidth - nodeRadius * 2, pulledX),
           Clamp(nodeRadius * 2, canvasHeight - nodeRadius * 2, pulledY))

Thread(s, parentPosition, depth, threadAngle, threadId, branchCount) ==
    [skill |-> s, parentPosition |-> parentPosition, depth |-> depth,
     threadAngle |-> threadAngle, threadId |-> threadId, branchCount |-> branchCount]

\* rootSkills.map(...): one thread per root skill, one seededRandom() call each
RECURSIVE RootThreads(_, _, _, _)
RootThreads(rootSkills, index, rs, c) ==
    IF index >= Len(rootSkills) THEN [threads |-> << >>, randomState |-> rs]
    ELSE LET r1 == NextRandom(rs)
             threadAngle == (index * FullTurn) \div Len(rootSkills) + Jitter(r1, 1047)
             rest == RootThreads(rootSkills, index + 1, r1, c)
         IN  [threads |-> <<Thread(rootSkills[index + 1], categoryPosition[c], 0,
                                   threadAngle, index, 0)>> \o rest.threads,
              randomState |-> rest.randomState]

\* positioned.has(current.skill.skill_id): the dequeued thread is dropped
AlreadyPositionedNever(s, done) == FALSE

AlreadyPositioned(s, done) == s \in done

\* the test that queues a child: the skill exists, is of the category at work
\* and has not been positioned
ChildIsQueued(childId, c, done) ==
    childId \in Ids /\ skillDefs[childId].category = c /\ childId \notin done

\* current.skill.unlocks.forEach(...): the threads pushed for the children of
\* the thread just positioned at `at`, one seededRandom() call per pushed child
RECURSIVE ChildThreads(_, _, _, _, _, _)
ChildThreads(current, at, k, rs, c, done) ==
    LET unlocks == skillDefs[current.skill].unlocks IN
    IF k > Len(unlocks) THEN [threads |-> << >>, randomState |-> rs]
    ELSE IF ~ChildIsQueued(unlocks[k], c, done)
    THEN ChildThreads(current, at, k + 1, rs, c, done)
    ELSE LET r1 == NextRandom(rs)
             branchAngle == current.threadAngle
                              + Div(Jitter(r1, 1571) * (10 - current.depth), 10)
             rest == ChildThreads(current, at, k + 1, r1, c, done)
         IN  [threads |-> <<Thread(unlocks[k], at, current.depth + 1, branchAngle,
                                   current.threadId, current.branchCount + 1)>>
                            \o rest.threads,
              randomState |-> rest.randomState]

(***************************************************************************)
(* Phase 3 (part_004): applyForceDirectedLayout, one outer iteration       *)
(***************************************************************************)
forceStrength == 80

SkillPairs == {pr \in Ids \X Ids : pr[1] < pr[2]}

Distance(pos, i, j) == Hypot(pos[j].x - pos[i].x, pos[j].y - pos[i].y)

ZeroPairs(pos) == {pr \in SkillPairs : Distance(pos, pr[1], pr[2]) = 0}

\* the unit vector of an angle, scaled to a strength
Polar(angle, strength) ==
    Pt(Div(Cos1000(angle) * strength, 1000), Div(Sin1000(angle) * strength, 1000))

\* what the pair skill1 = i, skill2 = j adds to forces[j] and takes from forces[i]
RepulsionForce(pos, i, j, randomAngle) ==
    LET dx == pos[j].x - pos[i].x
        dy == pos[j].y - pos[i].y
        distance == Hypot(dx, dy)
    IN  IF distance >= minDistance THEN ZeroPt
        ELSE IF distance = 0 THEN Polar(randomAngle, forceStrength)
        ELSE LET strength == (forceStrength * (minDistance - distance)) \div distance
             IN  Pt(Scale(strength, Unit(dx, distance)), Scale(strength, Unit(dy, distance)))

\* getSkillConnections(): skill.unlocks entries that name a skill, in order
RECURSIVE ConnectionsFrom(_, _)
ConnectionsFrom(s, k) ==
    IF k > Len(skillDefs[s].unlocks) THEN << >>
    ELSE (IF skillDefs[s].unlocks[k] \in Ids THEN << <<s, skillDefs[s].unlocks[k]>> >>
          ELSE << >>) \o ConnectionsFrom(s, k + 1)

RECURSIVE ConnectionsUpTo(_)
ConnectionsUpTo(s) ==
    IF s = 0 THEN << >> ELSE ConnectionsUpTo(s - 1) \o ConnectionsFrom(s, 1)

getSkillConnections == ConnectionsUpTo(Len(skillDefs))

\* what the unlock edge from -> to adds to forces[from] and takes from forces[to]
AttractionForce(pos, from, to) ==
    LET dx == pos[to].x - pos[from].x
        dy == pos[to].y - pos[from].y
        distance == Hypot(dx, dy)
    IN  IF distance > (minDistance * 3) \div 2
        THEN Pt(Div(Unit(dx, distance) * 10, 1000), Div(Unit(dy, distance) * 10, 1000))
        ELSE ZeroPt

\* the angle drawn for a pair at distance 0
AngleOf(randomAngle, pr) == IF pr \in DOMAIN randomAngle THEN randomAngle[pr] ELSE 0

\* forces.get(s) after the repulsion and attraction loops
ForceOn(pos, s, randomAngle) ==
    LET n == Len(skillDefs)
        repulsion == [t \in 1..n |->
                        IF t = s THEN ZeroPt
                        ELSE IF s < t THEN NegPt(RepulsionForce(pos, s, t, AngleOf(randomAngle, <<s, t>>)))
                        ELSE RepulsionForce(pos, t, s, AngleOf(randomAngle, <<t, s>>))]
        edges == getSkillConnections
        attraction == [k \in 1..Len(edges) |->
                         LET f == AttractionForce(pos, edges[k][1], edges[k][2]) IN
                         AddPt(IF edges[k][1] = s THEN f ELSE ZeroPt,
                               IF edges[k][2] = s THEN NegPt(f) ELSE ZeroPt)]
    IN  AddPt(SumPts(repulsion, n), SumPts(attraction, Len(edges)))

\* the bounds kept by the force loop
KeepWithinBoundsNoClamp(p, padding) == p

KeepWithinBounds(p, padding) ==
    Pt(Clamp(padding, canvasWidth - padding, p.x),
       Clamp(padding, canvasHeight - padding, p.y))

\* iter is the 0-based index of the outer iteration at work
Damping(iter) == Max(100, 1000 - (iter * 1000) \div maxIterations)

applyForces(pos, iter, randomAngle) ==
    [s \in Ids |->
        LET force == ForceOn(pos, s, randomAngle) IN
        KeepWithinBounds(Pt(pos[s].x + Scale(force.x, Damping(iter)),
                            pos[s].y + Scale(force.y, Damping(iter))),
                         nodeRadius)]

HasOverlaps(pos) == \E pr \in SkillPairs : Distance(pos, pr[1], pr[2]) < minDistance

\* the for loop is left: by its break, or because its condition fails
ForceLoopEndsOnlyByBreak(done, overlaps) == ~overlaps

ForceLoopEnds(done, overlaps) == ~overlaps \/ done >= maxIterations

(***************************************************************************)
(* Phase 4 (part_004, skill-tree.js): optimizeConnectionPaths              *)
(***************************************************************************)
connectionCurve == 300

\* controlX, controlY before they are bounded
organicControlPoint(fromPos, toPos) ==
    LET dx == toPos.x - fromPos.x
        dy == toPos.y - fromPos.y
        distance == Hypot(dx, dy)
        midX == (fromPos.x + toPos.x) \div 2
        midY == (fromPos.y + toPos.y) \div 2
        pathSeed == ((fromPos.x + fromPos.y + toPos.x + toPos.y) \div 100) % 1000
        r1 == NextRandom(pathSeed)
        r2 == NextRandom(r1)
        curveDirection == IF RandomValue(r1) > 500 THEN 1 ELSE -1
        curveStrength == (Scale(Scale(distance, connectionCurve), 600) + 2000) * curveDirection
        secondaryCurve == Jitter(r2, 1500)
        perpX == Unit(-dy, distance)
        perpY == Unit(dx, distance)
    IN  Pt(midX + Div(perpX * curveStrength, 1000) + Div(perpY * secondaryCurve, 1000),
           midY + Div(perpY * curveStrength, 1000) - Div(perpX * secondaryCurve, 1000))

\* Math.max(50, Math.min(dimension - 50, control))
boundedControlUnbounded(control, dimension) == control

boundedControl(control, dimension) == Clamp(5000, dimension - 5000, control)

calculateOrganicConnectionPath(fromPos, toPos) ==
    IF Hypot(toPos.x - fromPos.x, toPos.y - fromPos.y) < minDistance THEN <<fromPos, toPos>>
    ELSE LET control == organicControlPoint(fromPos, toPos)
         IN  <<fromPos,
               Pt(boundedControl(control.x, canvasWidth), boundedControl(control.y, canvasHeight)),
               toPos>>

\* this.connectionPaths after optimizeConnectionPaths(), keyed by <<from, to>>
optimizeConnectionPaths(pos) ==
    [e \in SeqToSet(getSkillConnections) |->
        calculateOrganicConnectionPath(pos[e[1]], pos[e[2]])]

(***************************************************************************)
(* The radial engine (skill-tree.js, second SkillTree class).              *)
(* Step 1: establishRadialCategorySeedPoints                               *)
(***************************************************************************)
\* category.radialAngle; index is 0-based, category c has index c - 1
RadialAngle(c) == ((c - 1) * FullTurn) \div NumCategories

RadialSeedPoint(c) ==
    LET categoryRadius == (Min(canvasWidth, canvasHeight) * 15) \div 100
        x == canvasWidth \div 2 + Scale(categoryRadius, Cos1000(RadialAngle(c)))
        y == canvasHeight \div 2 + Scale(categoryRadius, Sin1000(RadialAngle(c)))
    IN  Pt(Clamp(10000, canvasWidth - 10000, x), Clamp(10000, canvasHeight - 10000, y))

establishRadialCategorySeedPoints == [c \in Categories |-> RadialSeedPoint(c)]

(***************************************************************************)
(* Step 2: generateRadialSkillPositions                                    *)
(***************************************************************************)
\* unlocks of skill s: a child that is in the category is pushed on
\* s.children, and s on its parents
RECURSIVE AddChildren(_, _, _, _)
AddChildren(T, s, k, members) ==
    LET unlocks == skillDefs[s].unlocks IN
    IF k > Len(unlocks) THEN T
    ELSE AddChildren(
            IF unlocks[k] \in members
            THEN [T EXCEPT !.children = [@ EXCEPT ![s] = Append(@, unlocks[k])],
                           !.parents = [@ EXCEPT ![unlocks[k]] = Append(@, s)]]
            ELSE T,
            s, k + 1, members)

\* prerequisites of skill s: a parent that is in the category and not yet in
\* s.parents is pushed there, and s on its children unless it is there
RECURSIVE AddParents(_, _, _, _)
AddParents(T, s, k, members) ==
    LET prerequisites == skillDefs[s].prerequisites IN
    IF k > Len(prerequisites) THEN T
    ELSE LET parentId == prerequisites[k] IN
         AddParents(
            IF parentId \in members /\ parentId \notin SeqToSet(T.parents[s])
            THEN [T EXCEPT !.parents = [@ EXCEPT ![s] = Append(@, parentId)],
                           !.children = [@ EXCEPT ![parentId] =
                               IF s \in SeqToSet(@) THEN @ ELSE Append(@, s)]]
            ELSE T,
            s, k + 1, members)

\* the second categorySkills.forEach of buildSkillTreeStructure, from the
\* i-th skill on; a skill is a root by what its parents list holds when its
\* own turn ends
RECURSIVE BuildFrom(_, _, _, _)
BuildFrom(T, categorySkills, i, members) ==
    IF i > Len(categorySkills) THEN T
    ELSE LET s == categorySkills[i]
             linked == AddParents(AddChildren(T, s, 1, members), s, 1, members)
             isRoot == linked.parents[s] = << >> \/ Len(skillDefs[s].prerequisites) = 0
         IN  BuildFrom(IF isRoot THEN [linked EXCEPT !.roots = Append(@, s)] ELSE linked,
                       categorySkills, i + 1, members)

buildSkillTreeStructure(categorySkills) ==
    BuildFrom([children |-> [s \in Ids |-> << >>], parents |-> [s \in Ids |-> << >>],
               roots |-> << >>],
              categorySkills, 1, SeqToSet(categorySkills))

\* the while loop of organizeSkillsByDepth; levels[d + 1] is depthLevels.get(d)
RECURSIVE DepthLevelsFrom(_, _, _, _)
DepthLevelsFrom(skillTree, queue, visited, levels) ==
    IF queue = << >> THEN levels
    ELSE LET skill == Head(queue).skill
             depth == Head(queue).depth
         IN  IF skill \in visited
             THEN DepthLevelsFrom(skillTree, Tail(queue), visited, levels)
             ELSE LET seen == visited \cup {skill}
                      fresh == SelectSeq(skillTree.children[skill], LAMBDA c : c \notin seen)
                      pushed == [k \in 1..Len(fresh) |->
                                    [skill |-> fresh[k], depth |-> depth + 1]]
                  IN  DepthLevelsFrom(
                          skillTree, Tail(queue) \o pushed, seen,
                          IF depth + 1 > Len(levels) THEN Append(levels, <<skill>>)
                          ELSE [levels EXCEPT ![depth + 1] = Append(@, skill)])

organizeSkillsByDepth(skillTree) ==
    DepthLevelsFrom(skillTree,
                    [k \in 1..Len(skillTree.roots) |->
                        [skill |-> skillTree.roots[k], depth |-> 0]],
                    {}, << >>)

\* A ring of one skill: actualAngleSpacing / 2 is Math.PI, Math.sin of it
\* is 1.2e-16, and nodeSpacingRadius is 5.4e17 px.  The model keeps such a
\* radius as UnboundedRadius, which only the sign of the cosine or sine scales.
UnboundedRadius == 10 * (canvasWidth + canvasHeight)

Sign(a) == IF a > 0 THEN 1 ELSE IF a < 0 THEN -1 ELSE 0

RingOffset(ringRadius, factor) ==
    IF ringRadius >= UnboundedRadius THEN Sign(factor) * UnboundedRadius
    ELSE Scale(ringRadius, factor)

NodeSpacingRadius(numSkills) ==
    LET actualAngleSpacing == Max(262, FullTurn \div numSkills) IN
    IF numSkills = 1 THEN UnboundedRadius
    ELSE (((nodeRadius * 22) \div 10) * 1000) \div Sin1000(actualAngleSpacing \div 2)

RingRadius(currentRadius, numSkills) ==
    Max(currentRadius + 4500, NodeSpacingRadius(numSkills))

\* skillsAtDepth.forEach: the position of the index-th skill of a ring
RingPosition(c, center, depth, index, numSkills, ringRadius) ==
    LET actualAngleSpacing == Max(262, FullTurn \div numSkills)
        baseAngle == RadialAngle(c) + index * actualAngleSpacing
        variation == Div(Sin1000(index * 2400 + depth * 1700) * 100, 1000)
        actualAngle == baseAngle + variation
        x == center.x + RingOffset(ringRadius, Cos1000(actualAngle))
        y == center.y + RingOffset(ringRadius, Sin1000(actualAngle))
    IN  Pt(Clamp(5000, canvasWidth - 5000, x), Clamp(5000, canvasHeight - 5000, y))

\* depthLevels.forEach of positionSkillsRadially, from depth d on
RECURSIVE PositionLevels(_, _, _, _, _, _)
PositionLevels(c, center, levels, d, currentRadius, pos) ==
    IF d >= Len(levels) THEN pos
    ELSE LET skillsAtDepth == levels[d + 1]
             numSkills == Len(skillsAtDepth)
             ringRadius == RingRadius(currentRadius, numSkills)
             placed == [s \in Ids |->
                          IF \E k \in 1..numSkills : skillsAtDepth[k] = s
                          THEN RingPosition(c, center, d,
                                   (CHOOSE k \in 1..numSkills : skillsAtDepth[k] = s) - 1,
                                   numSkills, ringRadius)
                          ELSE pos[s]]
         IN  PositionLevels(c, center, levels, d + 1, ringRadius, placed)

positionSkillsRadially(c, center, skillTree, pos) ==
    PositionLevels(c, center, organizeSkillsByDepth(skillTree), 0, 5000, pos)

\* categories.forEach of generateRadialSkillPositions, from category c on
RECURSIVE RadialPositionsFrom(_, _, _)
RadialPositionsFrom(c, centers, pos) ==
    IF c > NumCategories THEN pos
    ELSE LET categorySkills == getSkillsByCategory(c) IN
         RadialPositionsFrom(
            c + 1, centers,
            IF Len(categorySkills) = 0 THEN pos
            ELSE positionSkillsRadially(c, centers[c],
                                        buildSkillTreeStructure(categorySkills), pos))

generateRadialSkillPositions(centers, pos) == RadialPositionsFrom(1, centers, pos)

\* the skills that generateRadialSkillPositions positions
RadiallyPositioned ==
    UNION {UNION {SeqToSet(lv[d]) : d \in 1..Len(lv)} :
           lv \in {organizeSkillsByDepth(buildSkillTreeStructure(getSkillsByCategory(c))) :
                   c \in Categories}}

(***************************************************************************)
(* Step 4 without D3: applyEnhancedForceDirectedLayout, one outer          *)
(* iteration                                                               *)
(***************************************************************************)
enhancedMinDistance == (minDistance * 3) \div 2

maxForceIterations == maxIterations * 2

\* createSpatialGrid(allSkills, enhancedMinDistance * 2): the cell of a position
CellOf(p) ==
    [x |-> p.x \div (enhancedMinDistance * 2), y |-> p.y \div (enhancedMinDistance * 2)]

\* getNearbySkillsFromGrid: t is among the skills returned for s
\* (searchCells = Math.ceil(searchRadius / cellSize) = 1)
IsNearby(pos, s, t) ==
    /\ s # t
    /\ Abs(CellOf(pos[t]).x - CellOf(pos[s]).x) <= 1
    /\ Abs(CellOf(pos[t]).y - CellOf(pos[s]).y) <= 1
    /\ Distance(pos, s, t) <= enhancedMinDistance * 2

\* the pairs skill1 < skill2 that the repulsion loop looks at
NearbyPairs(pos) == {pr \in SkillPairs : IsNearby(pos, pr[1], pr[2])}

EnhancedZeroPairs(pos) == {pr \in NearbyPairs(pos) : Distance(pos, pr[1], pr[2]) = 0}

\* this.forceStrength * Math.pow(overlapAmount / distance, 1.5); a quotient
\* beyond 100 is taken as 100 (the force is then 250 times maxForce)
EnhancedStrength(distance) ==
    LET overlapAmount == enhancedMinDistance - distance
        ratio == Min(100000, (overlapAmount * 1000) \div distance)
        power == MulDiv(ratio, Sqrt(ratio * 1000), 1000)
    IN  MulDiv(500, power, 1000)

\* what the pair skill1 = i, skill2 = j adds to forces[j] and takes from forces[i]
EnhancedRepulsionForce(pos, i, j, randomAngle) ==
    LET dx == pos[j].x - pos[i].x
        dy == pos[j].y - pos[i].y
        distance == Hypot(dx, dy)
    IN  IF ~IsNearby(pos, i, j) \/ distance >= enhancedMinDistance THEN ZeroPt
        ELSE IF distance = 0 THEN Polar(randomAngle, 500 * 2)
        ELSE Pt(Scale(EnhancedStrength(distance), Unit(dx, distance)),
                Scale(EnhancedStrength(distance), Unit(dy, distance)))

EnhancedHasOverlaps(pos) ==
    \E pr \in NearbyPairs(pos) : Distance(pos, pr[1], pr[2]) < enhancedMinDistance

\* totalOverlapForce: Math.abs(forceX) + Math.abs(forceY) over the overlapping
\* pairs at a distance other than 0
RECURSIVE SumOverlapForce(_, _)
SumOverlapForce(pos, pairs) ==
    IF pairs = {} THEN 0
    ELSE LET pr == CHOOSE q \in pairs : TRUE
             f == IF Distance(pos, pr[1], pr[2]) = 0 THEN ZeroPt
                  ELSE EnhancedRepulsionForce(pos, pr[1], pr[2], 0)
         IN  Abs(f.x) + Abs(f.y) + SumOverlapForce(pos, pairs \ {pr})

TotalOverlapForce(pos) == SumOverlapForce(pos, NearbyPairs(pos))

\* what the unlock edge from -> to adds to forces[from] and takes from forces[to]
EnhancedAttractionForce(pos, from, to) ==
    LET dx == pos[to].x - pos[from].x
        dy == pos[to].y - pos[from].y
        distance == Hypot(dx, dy)
        maxConnectionDistance == enhancedMinDistance * 3
        attractionStrength ==
            (5 * Min(1000, MulDiv(distance, 1000, maxConnectionDistance) - 1000)) \div 1000
    IN  IF distance > maxConnectionDistance
        THEN Pt(Div(Unit(dx, distance) * attractionStrength, 1000),
                Div(Unit(dy, distance) * attractionStrength, 1000))
        ELSE ZeroPt

\* forces.get(s) after the repulsion and attraction loops
EnhancedForceOn(pos, s, randomAngle) ==
    LET n == Len(skillDefs)
        repulsion == [t \in 1..n |->
                        IF t = s THEN ZeroPt
                        ELSE IF s < t
                        THEN NegPt(EnhancedRepulsionForce(pos, s, t,
                                                          AngleOf(randomAngle, <<s, t>>)))
                        ELSE EnhancedRepulsionForce(pos, t, s,
                                                    AngleOf(randomAngle, <<t, s>>))]
        edges == getSkillConnections
        attraction == [k \in 1..Len(edges) |->
                         LET f == EnhancedAttractionForce(pos, edges[k][1], edges[k][2]) IN
                         AddPt(IF edges[k][1] = s THEN f ELSE ZeroPt,
                               IF edges[k][2] = s THEN NegPt(f) ELSE ZeroPt)]
    IN  AddPt(SumPts(repulsion, n), SumPts(attraction, Len(edges)))

\* the force is cut to maxForce = 20
LimitForce(force) ==
    LET forceMagnitude == Hypot(force.x, force.y) IN
    IF forceMagnitude > 2000
    THEN Pt(Scale(2000, Unit(force.x, forceMagnitude)),
            Scale(2000, Unit(force.y, forceMagnitude)))
    ELSE force

\* Math.pow(progressRatio, 0.7) as the square root times the fifth root, the
\* fifth root in 64ths
FifthRoot64(iter) ==
    CHOOSE r \in 0..64 :
        /\ r * r * r * r * r <= iter * (1073741824 \div maxForceIterations)
        /\ (r + 1) * (r + 1) * (r + 1) * (r + 1) * (r + 1)
              > iter * (1073741824 \div maxForceIterations)

AdaptiveDamping(iter) ==
    LET root == Sqrt((iter * 1000000) \div maxForceIterations)
    IN  Max(50, 1000 - (root * FifthRoot64(iter)) \div 64)

applyEnhancedForces(pos, iter, randomAngle) ==
    [s \in Ids |->
        LET force == LimitForce(EnhancedForceOn(pos, s, randomAngle)) IN
        KeepWithinBounds(Pt(pos[s].x + Scale(force.x, AdaptiveDamping(iter)),
                            pos[s].y + Scale(force.y, AdaptiveDamping(iter))),
                         nodeRadius * 2)]

\* the for loop is left: by its break, or because its condition fails;
\* done - 1 is the index of the iteration that has just run
EnhancedLoopEndsAtWill(done, overlaps, total) == done - 1 > 20

EnhancedLoopEnds(done, overlaps, total) ==
    \/ ~overlaps
    \/ (done - 1 > 20 /\ total < 10)
    \/ done >= maxForceIterations

(***************************************************************************)
(* calculateLayout of the mycelium engine, stage by stage                  *)
(***************************************************************************)
LayoutOutput ==
    [position |-> position, categoryPosition |-> categoryPosition,
     connectionPaths |-> connectionPaths]

NoPaths == [e \in {} |-> << >>]

\* Phase 1
EstablishCategorySeedPoints ==
    /\ engine = "mycelium"
    /\ pc = "Uninitialized"
    /\ categoryPosition' = establishCategorySeedPoints
    /\ pc' = "SeedsPlaced"
    /\ UNCHANGED <<engine, position, connectionPaths, growthVars, forceVars, runVars,
                   usedMathRandom, pathTimer>>
    /\ UNCHANGED <<branchVars, simVars, appVars, forceSimVars>>

\* Phase 2, entry: let randomState = 42; categories.forEach starts
GrowMyceliumNetworks ==
    /\ engine = "mycelium"
    /\ pc = "SeedsPlaced"
    /\ randomState' = seed
    /\ categoryIndex' = 1
    /\ pc' = "NextCategory"
    /\ UNCHANGED <<engine, position, categoryPosition, connectionPaths,
                   myceliumThreads, positioned, placements, growthSteps, forceVars,
                   runVars, usedMathRandom, pathTimer>>
    /\ UNCHANGED <<branchVars, simVars, appVars, forceSimVars>>

\* Phase 2, one category: its root threads are created; a category without
\* skills, or without root skills, is done at once
GrowCategory ==
    /\ engine = "mycelium"
    /\ pc = "NextCategory"
    /\ categoryIndex <= NumCategories
    /\ LET categorySkills == getSkillsByCategory(categoryIndex)
           rootSkills == SelectSeq(categorySkills, IsRootSkill)
           made == RootThreads(rootSkills, 0, randomState, categoryIndex)
       IN  IF Len(categorySkills) = 0
           THEN /\ categoryIndex' = categoryIndex + 1
                /\ UNCHANGED <<pc, randomState, myceliumThreads, positioned>>
           ELSE /\ myceliumThreads' = made.threads
                /\ randomState' = made.randomState
                /\ positioned' = {}
                /\ IF made.threads = << >>
                   THEN categoryIndex' = categoryIndex + 1 /\ pc' = "NextCategory"
                   ELSE categoryIndex' = categoryIndex /\ pc' = "Growing"
    /\ UNCHANGED <<engine, position, categoryPosition, connectionPaths, placements,
                   growthSteps, forceVars, runVars, usedMathRandom, pathTimer>>
    /\ UNCHANGED <<branchVars, simVars, appVars, forceSimVars>>

\* Phase 2, one turn of while (myceliumThreads.length > 0)
GrowthStep ==
    /\ engine = "mycelium"
    /\ pc = "Growing"
    /\ myceliumThreads # << >>
    /\ LET current == Head(myceliumThreads)
           at == calculateEnhancedMyceliumGrowth(
                     current.parentPosition, current.threadAngle, current.depth,
                     categoryPosition[categoryIndex], current.threadId, randomState)
           children == ChildThreads(current, at, 1, RandomAfter(randomState, 4),
                                    categoryIndex, positioned \cup {current.skill})
           skipped == AlreadyPositioned(current.skill, positioned)
           queue == IF skipped THEN Tail(myceliumThreads)
                    ELSE Tail(myceliumThreads) \o children.threads
       IN  /\ myceliumThreads' = queue
           /\ IF skipped
              THEN UNCHANGED <<position, positioned, placements, randomState>>
              ELSE /\ position' = [position EXCEPT ![current.skill] = at]
                   /\ positioned' = positioned \cup {current.skill}
                   /\ placements' = [placements EXCEPT ![current.skill] = @ + 1]
                   /\ randomState' = children.randomState
           /\ IF queue = << >>
              THEN categoryIndex' = categoryIndex + 1 /\ pc' = "NextCategory"
              ELSE UNCHANGED <<categoryIndex, pc>>
    /\ growthSteps' = growthSteps + 1
    /\ UNCHANGED <<engine, categoryPosition, connectionPaths, forceVars, runVars,
                   usedMathRandom, pathTimer>>
    /\ UNCHANGED <<branchVars, simVars, appVars, forceSimVars>>

\* Phase 2, exit: categories.forEach is through
BranchesGrown ==
    /\ engine = "mycelium"
    /\ pc = "NextCategory"
    /\ categoryIndex > NumCategories
    /\ pc' = "BranchesGrown"
    /\ UNCHANGED <<engine, position, categoryPosition, connectionPaths, growthVars,
                   forceVars, runVars, usedMathRandom, pathTimer>>
    /\ UNCHANGED <<branchVars, simVars, appVars, forceSimVars>>

\* Phase 3, one outer iteration of applyForceDirectedLayout; the loop ends
\* by its break or when iteration reaches maxIterations
ForceIteration ==
    /\ engine = "mycelium"
    /\ pc \in {"BranchesGrown", "Colliding"}
    /\ \E randomAngle \in [ZeroPairs(position) -> RandomAngles] :
          position' = applyForces(position, iteration, randomAngle)
    /\ usedMathRandom' = (usedMathRandom \/ ZeroPairs(position) # {})
    /\ hasOverlaps' = HasOverlaps(position)
    /\ iteration' = iteration + 1
    /\ pc' = IF ForceLoopEnds(iteration', hasOverlaps')
             THEN "CollisionResolved" ELSE "Colliding"
    /\ UNCHANGED <<engine, categoryPosition, connectionPaths, totalOverlapForce,
                   growthVars, runVars, pathTimer>>
    /\ UNCHANGED <<branchVars, simVars, appVars, forceSimVars>>

\* Phase 4
OptimizeConnectionPaths ==
    /\ engine = "mycelium"
    /\ pc = "CollisionResolved"
    /\ connectionPaths' = optimizeConnectionPaths(position)
    /\ pc' = "Ready"
    /\ UNCHANGED <<engine, position, categoryPosition, growthVars, forceVars, runVars,
                   usedMathRandom, pathTimer>>
    /\ UNCHANGED <<branchVars, simVars, appVars, forceSimVars>>

(***************************************************************************)
(* calculateLayout of the radial engine, stage by stage                    *)
(***************************************************************************)
\* Step 1
EstablishRadialCategorySeedPoints ==
    /\ engine \in {"radial", "d3"}
    /\ pc = "Uninitialized"
    /\ categoryPosition' = establishRadialCategorySeedPoints
    /\ pc' = "SeedsPlaced"
    /\ UNCHANGED <<engine, position, connectionPaths, growthVars, forceVars, runVars,
                   usedMathRandom, pathTimer>>
    /\ UNCHANGED <<branchVars, simVars, appVars, forceSimVars>>

\* Step 2
GenerateRadialSkillPositions ==
    /\ engine \in {"radial", "d3"}
    /\ pc = "SeedsPlaced"
    /\ position' = generateRadialSkillPositions(categoryPosition, position)
    /\ placements' = [s \in Ids |-> IF s \in RadiallyPositioned THEN 1 ELSE 0]
    /\ pc' = "BranchesGrown"
    /\ UNCHANGED <<engine, categoryPosition, connectionPaths, randomState, categoryIndex,
                   myceliumThreads, positioned, growthSteps, forceVars, runVars,
                   usedMathRandom, pathTimer>>
    /\ UNCHANGED <<branchVars, simVars, appVars, forceSimVars>>

\* Step 4 without D3, one outer iteration of applyEnhancedForceDirectedLayout;
\* when the loop is left, calculateLayout sets the timer of
\* optimizeConnectionPaths and returns
EnhancedForceIteration ==
    /\ engine = "radial"
    /\ pc \in {"NodesPrepared", "Colliding"}
    /\ \E randomAngle \in [EnhancedZeroPairs(position) -> RandomAngles] :
          position' = applyEnhancedForces(position, iteration, randomAngle)
    /\ usedMathRandom' = (usedMathRandom \/ EnhancedZeroPairs(position) # {})
    /\ hasOverlaps' = EnhancedHasOverlaps(position)
    /\ totalOverlapForce' = TotalOverlapForce(position)
    /\ iteration' = iteration + 1
    /\ IF EnhancedLoopEnds(iteration', hasOverlaps', totalOverlapForce')
       THEN pc' = "CollisionResolved" /\ pathTimer' = TRUE
       ELSE pc' = "Colliding" /\ UNCHANGED pathTimer
    /\ UNCHANGED <<engine, categoryPosition, connectionPaths, growthVars, runVars>>
    /\ UNCHANGED <<branchVars, simVars, appVars, forceSimVars>>

\* the timer set by calculateLayout fires: optimizeConnectionPaths()
PathTimerFires ==
    /\ pathTimer
    /\ connectionPaths' = optimizeConnectionPaths(position)
    /\ pathTimer' = FALSE
    /\ pc' = IF pc = "CollisionResolved" THEN "Ready" ELSE pc
    /\ UNCHANGED <<engine, position, categoryPosition, growthVars, forceVars, runVars,
                   usedMathRandom>>
    /\ UNCHANGED <<branchVars, simVars, appVars, forceSimVars>>

(***************************************************************************)
(* Step 3 and step 4 with D3 (skill-tree.js, d3-force-simulation.js).      *)
(* ForceSimulation works on copies of the nodes it is given ({...node});   *)
(* SkillTree reads none of them, and they are not part of the state here.  *)
(***************************************************************************)
\* this.nodes of prepareD3NodesAndLinks; a root node has fx = x and fy = y
prepareD3Nodes(pos) ==
    [s \in Ids |-> [x |-> pos[s].x, y |-> pos[s].y, isRoot |-> IsRootSkill(s)]]

\* onSimulationTick: the nodes of SkillTree after the clamp of the non-root ones
TickedNodes(ns) ==
    [s \in DOMAIN ns |->
        IF ns[s].isRoot THEN ns[s]
        ELSE [ns[s] EXCEPT !.x = Clamp(nodeRadius, canvasWidth - nodeRadius, @),
                           !.y = Clamp(nodeRadius, canvasHeight - nodeRadius, @)]]

\* skill.position.x = node.x, skill.position.y = node.y
NodePositions(ns) == [s \in DOMAIN ns |-> Pt(ns[s].x, ns[s].y)]

\* this.alpha += (this.alphaTarget - this.alpha) * this._alphaDecay, with
\* alphaTarget 0 and the alphaDecay(0.01) of createD3Simulation
DecayedAlpha(a) == a - (a * 10) \div 1000

\* alphaMin = 0.001
AlphaAboveMin(a) == a > 1000

\* ForceSimulation.prototype.tick on a simulation that is not stopped, with
\* the listeners onSimulationTick and, at the end, onSimulationEnd
RunTick(a) ==
    /\ nodes' = TickedNodes(nodes)
    /\ position' = NodePositions(TickedNodes(nodes))
    /\ alpha' = DecayedAlpha(a)
    /\ IF AlphaAboveMin(DecayedAlpha(a))
       THEN /\ tickPending' = TRUE
            /\ stopped' = FALSE
            /\ pc' = "Simulating"
            /\ UNCHANGED connectionPaths
       ELSE /\ tickPending' = FALSE
            /\ stopped' = TRUE
            /\ pc' = "Ready"
            /\ connectionPaths' = optimizeConnectionPaths(NodePositions(TickedNodes(nodes)))

\* Step 3
PrepareD3NodesAndLinks ==
    /\ engine \in {"radial", "d3"}
    /\ pc = "BranchesGrown"
    /\ nodes' = prepareD3Nodes(position)
    /\ pc' = "NodesPrepared"
    /\ UNCHANGED <<engine, position, categoryPosition, connectionPaths, growthVars,
                   forceVars, runVars, usedMathRandom, pathTimer, branchVars,
                   simulation, alpha, stopped, tickPending, threw>>
    /\ UNCHANGED <<appVars, forceSimVars>>

\* Step 4 with D3: createD3Simulation makes the simulation and restarts it;
\* restart() runs the first tick
CreateD3Simulation ==
    /\ engine = "d3"
    /\ pc = "NodesPrepared"
    /\ simulation' = TRUE
    /\ RunTick(1000000)
    /\ threw' = FALSE
    /\ UNCHANGED <<engine, categoryPosition, growthVars, forceVars, runVars,
                   usedMathRandom, pathTimer, branchVars>>
    /\ UNCHANGED <<appVars, forceSimVars>>

\* the timer set by tick fires: tick()
TickTimerFires ==
    /\ simulation
    /\ tickPending
    /\ IF stopped
       THEN /\ tickPending' = FALSE
            /\ UNCHANGED <<pc, position, connectionPaths, nodes, alpha, stopped>>
       ELSE RunTick(alpha)
    /\ threw' = FALSE
    /\ UNCHANGED <<engine, categoryPosition, growthVars, forceVars, runVars,
                   usedMathRandom, pathTimer, branchVars, simulation>>
    /\ UNCHANGED <<appVars, forceSimVars>>

\* stopSimulation(), called once calculateLayout has returned
StopSimulation ==
    /\ engine = "d3"
    /\ pc \in {"Simulating", "Ready"}
    /\ simulation
    /\ stopped' = TRUE
    /\ tickPending' = FALSE
    /\ threw' = FALSE
    /\ UNCHANGED <<engine, pc, position, categoryPosition, connectionPaths, growthVars,
                   forceVars, runVars, usedMathRandom, pathTimer, branchVars, nodes,
                   simulation, alpha>>
    /\ UNCHANGED <<appVars, forceSimVars>>

\* restartSimulation(), called once calculateLayout has returned: the nodes
\* are prepared again, and this.simulation.nodes(this.nodes) throws a
\* TypeError, nodes being the array that the ForceSimulation constructor put
\* on the simulation
RestartSimulation ==
    /\ engine = "d3"
    /\ pc \in {"Simulating", "Ready"}
    /\ simulation
    /\ nodes' = prepareD3Nodes(position)
    /\ threw' = TRUE
    /\ UNCHANGED <<engine, pc, position, categoryPosition, connectionPaths, growthVars,
                   forceVars, runVars, usedMathRandom, pathTimer, branchVars,
                   simulation, alpha, stopped, tickPending>>
    /\ UNCHANGED <<appVars, forceSimVars>>

(***************************************************************************)
(* The branch engine (part_005): calculateLayout, layoutCategorySkills and *)
(* layoutSkillBranch, call by call                                         *)
(***************************************************************************)
skillSpacing == 15000

\* category.position of calculateLayout: a circle of radius 500 round (800, 600)
BranchCategoryPosition(c) ==
    LET angle == ((c - 1) * FullTurn) \div NumCategories - 1571
    IN  Pt(80000 + Scale(50000, Cos1000(angle)), 60000 + Scale(50000, Sin1000(angle)))

\* node.children of layoutCategorySkills: the unlocks that are in the category
BranchChildren(s) ==
    SelectSeq(skillDefs[s].unlocks,
              LAMBDA childId : childId \in Ids
                               /\ skillDefs[childId].category = skillDefs[s].category)

Call(s, angle, distance, depth) ==
    [skill |-> s, angle |-> angle, distance |-> distance, depth |-> depth, next |-> 0]

\* rootSkills.forEach: the calls of layoutSkillBranch for the root skills
BranchRootCalls(rootSkills) ==
    LET branchAngleStep == FullTurn \div Max(Len(rootSkills), 1) IN
    [k \in 1..Len(rootSkills) |->
        Call(rootSkills[k], (k - 1) * branchAngleStep - 1571, skillSpacing, 0)]

\* node.children.forEach: the call for the child of index k - 1
BranchChildCall(frame, k) ==
    LET children == BranchChildren(frame.skill)
        maxSpread == 1047
        childAngleStep == IF Len(children) > 1 THEN maxSpread \div (Len(children) - 1) ELSE 0
        startAngle == frame.angle - maxSpread \div 2
    IN  Call(children[k], startAngle + (k - 1) * childAngleStep,
             frame.distance + skillSpacing, frame.depth + 1)

BranchPosition(origin, frame) ==
    Pt(origin.x + Scale(frame.distance, Cos1000(frame.angle)),
       origin.y + Scale(frame.distance, Sin1000(frame.angle)))

\* node.positioned
NodePositioned(s, done) == s \in done

\* calculateLayout is entered
BranchLayout ==
    /\ engine = "branch"
    /\ pc = "Uninitialized"
    /\ categoryIndex' = 1
    /\ pc' = "NextCategory"
    /\ UNCHANGED <<engine, position, categoryPosition, connectionPaths, randomState,
                   myceliumThreads, positioned, placements, growthSteps, forceVars,
                   runVars, usedMathRandom, pathTimer>>
    /\ UNCHANGED <<branchVars, simVars, appVars, forceSimVars>>

\* categories.forEach, one category: its position, and layoutCategorySkills
\* up to the calls for its root skills
LayoutCategorySkills ==
    /\ engine = "branch"
    /\ pc = "NextCategory"
    /\ categoryIndex <= NumCategories
    /\ categoryPosition' =
          [categoryPosition EXCEPT ![categoryIndex] = BranchCategoryPosition(categoryIndex)]
    /\ LET skills == getSkillsByCategory(categoryIndex)
           rootSkills == SelectSeq(skills, IsRootSkill)
       IN  IF Len(skills) = 0 \/ Len(rootSkills) = 0
           THEN /\ categoryIndex' = categoryIndex + 1
                /\ UNCHANGED <<pc, rootCalls>>
                /\ positioned' = IF Len(skills) = 0 THEN positioned ELSE {}
           ELSE /\ rootCalls' = BranchRootCalls(rootSkills)
                /\ positioned' = {}
                /\ pc' = "Growing"
                /\ UNCHANGED categoryIndex
    /\ UNCHANGED <<engine, position, connectionPaths, randomState, myceliumThreads,
                   placements, growthSteps, forceVars, runVars, usedMathRandom,
                   pathTimer, callStack>>
    /\ UNCHANGED <<simVars, appVars, forceSimVars>>

\* rootSkills.forEach calls layoutSkillBranch for the next root skill
CallLayoutSkillBranch ==
    /\ engine = "branch"
    /\ pc = "Growing"
    /\ callStack = << >>
    /\ rootCalls # << >>
    /\ callStack' = <<Head(rootCalls)>>
    /\ rootCalls' = Tail(rootCalls)
    /\ UNCHANGED <<engine, pc, position, categoryPosition, connectionPaths, growthVars,
                   forceVars, runVars, usedMathRandom, pathTimer>>
    /\ UNCHANGED <<simVars, appVars, forceSimVars>>

\* the innermost call of layoutSkillBranch goes on: it returns at once on a
\* positioned node, or positions its node; then it calls itself for the next
\* child, or returns when there is none left
LayoutSkillBranchStep ==
    /\ engine = "branch"
    /\ pc = "Growing"
    /\ callStack # << >>
    /\ LET depth == Len(callStack)
           frame == callStack[depth]
           returned == SubSeq(callStack, 1, depth - 1)
           children == BranchChildren(frame.skill)
           enters == frame.next = 0
           stack == IF enters
                    THEN IF NodePositioned(frame.skill, positioned) THEN returned
                         ELSE [callStack EXCEPT ![depth].next = 1]
                    ELSE IF frame.next <= Len(children)
                         THEN Append([callStack EXCEPT ![depth].next = @ + 1],
                                     BranchChildCall(frame, frame.next))
                         ELSE returned
       IN  /\ callStack' = stack
           /\ IF enters /\ ~NodePositioned(frame.skill, positioned)
              THEN /\ position' = [position EXCEPT ![frame.skill] =
                                      BranchPosition(categoryPosition[categoryIndex], frame)]
                   /\ positioned' = positioned \cup {frame.skill}
                   /\ placements' = [placements EXCEPT ![frame.skill] = @ + 1]
              ELSE UNCHANGED <<position, positioned, placements>>
           /\ growthSteps' = IF enters THEN growthSteps + 1 ELSE growthSteps
           /\ IF stack = << >> /\ rootCalls = << >>
              THEN categoryIndex' = categoryIndex + 1 /\ pc' = "NextCategory"
              ELSE UNCHANGED <<categoryIndex, pc>>
    /\ UNCHANGED <<engine, categoryPosition, connectionPaths, randomState,
                   myceliumThreads, forceVars, runVars, usedMathRandom, pathTimer,
                   rootCalls>>
    /\ UNCHANGED <<simVars, appVars, forceSimVars>>

\* calculateLayout returns
BranchLayoutDone ==
    /\ engine = "branch"
    /\ pc = "NextCategory"
    /\ categoryIndex > NumCategories
    /\ pc' = "Ready"
    /\ UNCHANGED <<engine, position, categoryPosition, connectionPaths, growthVars,
                   forceVars, runVars, usedMathRandom, pathTimer>>
    /\ UNCHANGED <<branchVars, simVars, appVars, forceSimVars>>

\* calculateLayout() is called again on the same SkillTree
CalculateLayoutAgain ==
    /\ pc = "Ready"
    /\ run < MaxRuns
    /\ firstRun' = LayoutOutput
    /\ run' = run + 1
    /\ runKind' = "again"
    /\ pc' = "Uninitialized"
    /\ iteration' = 0
    /\ hasOverlaps' = FALSE
    /\ totalOverlapForce' = 0
    /\ placements' = [s \in Ids |-> 0]
    /\ growthSteps' = 0
    /\ UNCHANGED <<engine, position, categoryPosition, connectionPaths, randomState,
                   categoryIndex, myceliumThreads, positioned, usedMathRandom, pathTimer>>
    /\ UNCHANGED <<branchVars, simVars, appVars, forceSimVars>>

\* the page is loaded again: new SkillData(), new SkillTree(skillData, ...)
NewSkillTree ==
    /\ pc = "Ready"
    /\ run < MaxRuns
    /\ firstRun' = LayoutOutput
    /\ run' = run + 1
    /\ runKind' = "fresh"
    /\ position' = DataPositions(skillDefs)
    /\ categoryPosition' = [c \in Categories |-> CategoryData[c]]
    /\ connectionPaths' = NoPaths
    /\ pc' = "Uninitialized"
    /\ iteration' = 0
    /\ hasOverlaps' = FALSE
    /\ totalOverlapForce' = 0
    /\ placements' = [s \in Ids |-> 0]
    /\ growthSteps' = 0
    /\ randomState' = seed
    /\ categoryIndex' = 1
    /\ myceliumThreads' = << >>
    /\ positioned' = {}
    /\ usedMathRandom' = FALSE
    /\ UNCHANGED <<engine, pathTimer>>
    /\ UNCHANGED <<branchVars, simVars, appVars, forceSimVars>>

(***************************************************************************)
(* UserProgress and ImportExportController: reload and import              *)
(***************************************************************************)
\* the loop "Calculate stats for each skill" of syncWithSkillData over the
\* skills up to s: a skill whose category has no entry is passed over
RECURSIVE SyncStats(_, _, _)
SyncStats(defs, cs, s) ==
    IF s = 0 THEN [c \in Categories |-> CategoryStats(0, 0, 0)]
    ELSE LET before == SyncStats(defs, cs, s - 1)
             c == defs[s].category
         IN  IF c \notin DOMAIN before THEN before
             ELSE IF s \in SeqToSet(cs)
             THEN [before EXCEPT ![c] = CategoryStats(@.completedCount + 1, @.totalSkills + 1,
                                                       @.points + defs[s].points)]
             ELSE [before EXCEPT ![c] = CategoryStats(@.completedCount, @.totalSkills + 1,
                                                       @.points)]

RECURSIVE SumStatPoints(_, _)
SumStatPoints(stats, c) == IF c = 0 THEN 0 ELSE SumStatPoints(stats, c - 1) + stats[c].points

\* syncWithSkillData(skillData) on progress with completedSkills cs
SyncWithSkillData(defs, cs) ==
    /\ completedSkills' = cs
    /\ categoryProgress' = SyncStats(defs, cs, Len(defs))
    /\ totalPoints' = SumStatPoints(SyncStats(defs, cs, Len(defs)), NumCategories)
    /\ SaveProgress

\* loadProgress(): the completedSkills of the progress it leaves
LoadedCompletedSkills ==
    IF stored.kind = "json" /\ isValidVersion(stored.version)
    THEN stored.completedSkills ELSE << >>

\* the page is loaded again: initializeDataModels makes a new SkillData and a
\* new UserProgress, whose constructor calls loadProgress, and calls
\* syncWithSkillData
Reload ==
    /\ completed' = [s \in Ids |-> FALSE]
    /\ dateCompleted' = [s \in Ids |-> 0]
    /\ unlocked' = [s \in Ids |-> isSkillUnlocked(skillDefs, completed', s)]
    /\ SyncWithSkillData(skillDefs, LoadedCompletedSkills)
    /\ currentModal' = 0
    /\ lastCall' = <<"reload", 0>>
    /\ lastReturn' = TRUE
    /\ UNCHANGED <<skillDefs, layoutVars, forceSimVars>>

\* The text handed to importProgress: it does not parse, or it parses to an
\* object in which version, completedSkills, totalPoints and categoryProgress
\* are there or missing.  For ImportExportController version is
\* metadata.version and the other three are fields of progress.
ImportDocument(version, cs, tp, cp) ==
    [json |-> "object", version |-> version, completedSkills |-> cs, totalPoints |-> tp,
     categoryProgress |-> cp]

ImportDocuments ==
    {[json |-> "garbage", version |-> "none", completedSkills |-> NoValue,
      totalPoints |-> NoValue, categoryProgress |-> NoValue],
     ImportDocument("1.0.0", NoValue, Value(3), Value(NoCategoryProgress)),
     ImportDocument("1.0.0", Value(<<1>>), Value(3), Value(NoCategoryProgress)),
     ImportDocument("1.0.0", Value(<<UnknownSkill>>), Value(3), NoValue),
     ImportDocument("2.0.0", Value(<<1>>), Value(3), Value(NoCategoryProgress)),
     ImportDocument("none", Value(<<1>>), Value(3), Value(NoCategoryProgress))}

\* UserProgress.validateImportData(data)
validateImportData(doc) == IsSet(doc.completedSkills) /\ IsSet(doc.totalPoints)

\* UserProgress.importProgress(jsonData)
UserProgressImport(doc) ==
    /\ IF doc.json = "object" /\ validateImportData(doc)
       THEN /\ completedSkills' = doc.completedSkills[1]
            /\ totalPoints' = doc.totalPoints[1]
            /\ categoryProgress' = IF IsSet(doc.categoryProgress) THEN doc.categoryProgress[1]
                                   ELSE NoCategoryProgress
            /\ SaveProgress
            /\ lastReturn' = TRUE
       ELSE /\ UNCHANGED progressVars
            /\ lastReturn' = FALSE
    /\ lastCall' = <<"UserProgress.importProgress", doc>>
    /\ UNCHANGED <<skillDefs, dataVars, currentModal, layoutVars, forceSimVars>>

\* ImportExportController.validateImportData(data); exportDate is taken to
\* be there whenever metadata.version is
ControllerValidates(doc) ==
    /\ doc.version # "none"
    /\ IsSet(doc.completedSkills)
    /\ IsSet(doc.totalPoints)
    /\ IsSet(doc.categoryProgress)
    /\ SeqToSet(doc.completedSkills[1]) \subseteq Ids

ControllerChecksVersion(doc) == isValidVersion(doc.version)

\* ImportExportController.importProgress(jsonData): performImport, then
\* syncWithSkillData; skillData.importData(importData.progress) returns
\* false at once, because progress has no field skills
ControllerImport(doc) ==
    /\ IF doc.json = "object" /\ ControllerValidates(doc) /\ ControllerChecksVersion(doc)
       THEN /\ SyncWithSkillData(skillDefs, doc.completedSkills[1])
            /\ lastReturn' = TRUE
       ELSE /\ UNCHANGED progressVars
            /\ lastReturn' = FALSE
    /\ lastCall' = <<"ImportExportController.importProgress", doc>>
    /\ UNCHANGED <<skillDefs, dataVars, currentModal, layoutVars, forceSimVars>>

(***************************************************************************)
(* SkillData.addSkill                                                      *)
(***************************************************************************)
RequiredFields == {"skill_id", "name", "description", "category", "points", "position"}

\* The argument of addSkill: an object that lacks the fields in `missing`.
\* Its skill_id is that of a skill in the map or the next free one.
SkillDefinitions ==
    [missing : {{}} \cup {{f} : f \in RequiredFields},
     id : {Len(skillDefs), Len(skillDefs) + 1},
     category : {1, UnknownCategory},
     prerequisites : {NoSkills, <<1>>}]

\* validateSkill without its test
validateSkillAcceptsAll(def) == TRUE

\* validateSkill(skill): every required field is an own property
validateSkill(def) == \A field \in RequiredFields : field \notin def.missing

\* skills.set(skill_id, ...) on a sequence indexed by skill_id
SetAt(f, id, v) ==
    IF id \in DOMAIN f THEN [f EXCEPT ![id] = v] ELSE Append(f, v)

\* addSkill(skillData)
AddSkill(def) ==
    /\ def.id <= MaxSkills
    /\ IF validateSkill(def)
       THEN LET skill == SkillDef(def.category, 3, def.prerequisites, NoSkills,
                                  Pt(40000, 40000))
                defs == SetAt(skillDefs, def.id, skill)
            IN  /\ skillDefs' = defs
                /\ completed' = SetAt(completed, def.id, FALSE)
                /\ dateCompleted' = SetAt(dateCompleted, def.id, 0)
                /\ unlocked' = SetAt(unlocked, def.id,
                                     isSkillUnlocked(defs, SetAt(completed, def.id, FALSE), def.id))
                /\ position' = SetAt(position, def.id, skill.position)
                /\ placements' = SetAt(placements, def.id, 0)
                /\ lastReturn' = TRUE
       ELSE /\ UNCHANGED <<skillDefs, dataVars, position, placements>>
            /\ lastReturn' = FALSE
    /\ lastCall' = <<"addSkill", [missing |-> def.missing, id |-> def.id]>>
    /\ UNCHANGED <<progressVars, currentModal, forceSimVars>>
    /\ UNCHANGED <<engine, pc, categoryPosition, connectionPaths, randomState,
                   categoryIndex, myceliumThreads, positioned, growthSteps, forceVars,
                   runVars, usedMathRandom, pathTimer, branchVars, simVars>>

(***************************************************************************)
(* ForceSimulation.  Two implementations are in the repository:            *)
(*   "js"    js/d3-force-simulation.js: a function with prototype methods, *)
(*           a chain of setTimeout timers and a stopped flag               *)
(*   "libs"  js/libs/d3-force-simulation.js: a class driven by setInterval *)
(* Node coordinates and velocities are in hundredths of a pixel, alpha in  *)
(* millionths, decay rates in thousandths.                                 *)
(***************************************************************************)
\* a node as the ForceSimulation constructor (initializeNodes) makes it
SimNode(x, y, fx, fy) == [x |-> x, y |-> y, vx |-> 0, vy |-> 0, fx |-> fx, fy |-> fy]

\* node.fx != null && node.fy != null
IsFixedNode(n) == IsSet(n.fx) /\ IsSet(n.fy)

\* prepareD3NodesAndLinks: a root skill is pinned where it is, any other
\* skill floats.  The pinned node comes first in the list.
SimNodesRootFirst ==
    << SimNode(30000, 30000, Value(30000), Value(30000)),
       SimNode(33000, 30000, NoValue, NoValue),
       SimNode(30000, 42000, NoValue, NoValue) >>

\* the same skills, the root declared last
SimNodesRootLast ==
    << SimNode(33000, 30000, NoValue, NoValue),
       SimNode(30000, 42000, NoValue, NoValue),
       SimNode(30000, 30000, Value(30000), Value(30000)) >>

\* a node pinned on one axis only and not yet at its fx, next to a pinned
\* node and a floating one
SimNodesHalfPinned ==
    << SimNode(50000, 50000, Value(52000), NoValue),
       SimNode(50000, 55000, Value(50000), Value(55000)),
       SimNode(56000, 52000, NoValue, NoValue) >>

SimNodeSets == {SimNodesRootFirst, SimNodesRootLast, SimNodesHalfPinned}

\* createD3Simulation: forceManyBody().strength(-100).distanceMax(200)
chargeStrength == -100
chargeDistanceMax == 20000
\* forceCollide().radius(nodeRadius + 10).strength(1.0).iterations(2)
collideRadius == nodeRadius + 1000
collideIterations == 2
\* velocityDecay(0.3)
velocityDecay == 300
\* libs: velocityDecay = 0.4
libsVelocityDecay == 400
\* alphaMin = 0.001
alphaMin == 1000
\* _alphaDecay = 1 - Math.pow(alphaMin, 1 / 300)
defaultAlphaDecay == 23

\* the pair lies within distanceMax: distance2 < distanceMax2
WithinChargeRange(n1, n2) ==
    /\ Abs(n2.x - n1.x) < chargeDistanceMax
    /\ Abs(n2.y - n1.y) < chargeDistanceMax
    /\ (n2.x - n1.x) * (n2.x - n1.x) + (n2.y - n1.y) * (n2.y - n1.y)
          < chargeDistanceMax * chargeDistanceMax

\* dx * k and dy * k of ForceManyBody for the pair (n1, n2), k = strength *
\* alpha / distance2: with distances in hundredths of a pixel and alpha in
\* millionths, strength * alpha / distance2 is -(alpha / 1000) / (d2 / 1000)
\* times (-strength / 100).  distanceMin2 is 1 square pixel.
ChargePush(n1, n2, a) ==
    LET dx == n2.x - n1.x
        dy == n2.y - n1.y
        d2 == dx * dx + dy * dy
        distance2 == IF d2 < 10000 THEN Sqrt(d2) * 100 ELSE d2
        scale == ((-chargeStrength) * (a \div 1000)) \div 100
    IN  Pt(-Div(dx * scale, Max(1, distance2 \div 1000)),
           -Div(dy * scale, Max(1, distance2 \div 1000)))

AddVelocity(n, v) == [n EXCEPT !.vx = n.vx + v.x, !.vy = n.vy + v.y]

\* the inner loop of ForceManyBody.force for node i, from node j on
RECURSIVE ChargeInner(_, _, _, _)
ChargeInner(ns, i, j, a) ==
    IF j > Len(ns) THEN ns
    ELSE IF ~WithinChargeRange(ns[i], ns[j]) THEN ChargeInner(ns, i, j + 1, a)
    ELSE LET Pushed(push) ==
                 LET n1 == IF IsFixedNode(ns[i]) THEN ns[i] ELSE AddVelocity(ns[i], NegPt(push))
                     n2 == IF IsFixedNode(ns[j]) THEN ns[j] ELSE AddVelocity(ns[j], push)
                 IN  [ns EXCEPT ![i] = n1, ![j] = n2]
         IN  WithValue(LAMBDA next : ChargeInner(next, i, j + 1, a),
                       WithValue(Pushed, ChargePush(ns[i], ns[j], a)))

\* node1 of the outer loop is passed over: `continue`
SkipsFixedNode1(n) == IsFixedNode(n)

\* ForceManyBody.force(alpha), from node i on
RECURSIVE ChargeOuter(_, _, _)
ChargeOuter(ns, i, a) ==
    IF i > Len(ns) THEN ns
    ELSE IF SkipsFixedNode1(ns[i]) THEN ChargeOuter(ns, i + 1, a)
    ELSE WithValue(LAMBDA next : ChargeOuter(next, i + 1, a), ChargeInner(ns, i, i + 1, a))

ForceManyBody(ns, a) == ChargeOuter(ns, 1, a)

\* the direction in which ForceCollide pushes node2 away from node1, in
\* thousandths; at distance 0 it is drawn with Math.random()
CollideDirection(n1, n2, distance, randomAngle) ==
    IF distance = 0 THEN Pt(Cos1000(randomAngle), Sin1000(randomAngle))
    ELSE Pt(Unit(n2.x - n1.x, distance), Unit(n2.y - n1.y, distance))

MoveNode(n, v) == [n EXCEPT !.x = n.x + v.x, !.y = n.y + v.y]

\* the inner loop of ForceCollide.force for node i, from node j on
RECURSIVE CollideInner(_, _, _, _)
CollideInner(ns, i, j, randomAngle) ==
    IF j > Len(ns) THEN ns
    ELSE LET minimum == collideRadius + collideRadius
             Shifted(shift) ==
                 LET n1 == IF IsFixedNode(ns[i]) THEN ns[i] ELSE MoveNode(ns[i], NegPt(shift))
                     n2 == IF IsFixedNode(ns[j]) THEN ns[j] ELSE MoveNode(ns[j], shift)
                 IN  [ns EXCEPT ![i] = n1, ![j] = n2]
             Apart(distance) ==
                 IF distance >= minimum THEN ns
                 ELSE LET adjust == (minimum - distance) \div 2
                          Shift(d) == Pt(Scale(adjust, d.x), Scale(adjust, d.y))
                      IN  WithValue(Shifted,
                              WithValue(Shift, CollideDirection(ns[i], ns[j], distance, randomAngle)))
         IN  WithValue(LAMBDA next : CollideInner(next, i, j + 1, randomAngle),
                       WithValue(Apart, Hypot(ns[j].x - ns[i].x, ns[j].y - ns[i].y)))

RECURSIVE CollideOuter(_, _, _)
CollideOuter(ns, i, randomAngle) ==
    IF i > Len(ns) THEN ns
    ELSE IF IsFixedNode(ns[i]) THEN CollideOuter(ns, i + 1, randomAngle)
    ELSE WithValue(LAMBDA next : CollideOuter(next, i + 1, randomAngle),
                   CollideInner(ns, i, i + 1, randomAngle))

\* ForceCollide.force(), `iterations` passes
RECURSIVE ForceCollide(_, _, _)
ForceCollide(ns, k, randomAngle) ==
    IF k = 0 THEN ns
    ELSE WithValue(LAMBDA next : ForceCollide(next, k - 1, randomAngle),
                   CollideOuter(ns, 1, randomAngle))

\* tick, "Update positions", for one node: a set fx or fy is taken over and
\* the velocity zeroed, otherwise the velocity decays and moves the node
SnapToFixedNever(v) == FALSE

SnapToFixed(v) == IsSet(v)

UpdatePosition(n) ==
    LET vx == IF SnapToFixed(n.fx) THEN 0 ELSE Scale(n.vx, velocityDecay)
        vy == IF SnapToFixed(n.fy) THEN 0 ELSE Scale(n.vy, velocityDecay)
    IN  [n EXCEPT !.vx = vx, !.vy = vy,
                  !.x = IF SnapToFixed(n.fx) THEN n.fx[1] ELSE n.x + vx,
                  !.y = IF SnapToFixed(n.fy) THEN n.fy[1] ELSE n.y + vy]

\* the forces of this.forces in the order of their registration, charge
\* before collision, then the position update
TickNodes(ns, a, charge, collide, randomAngle) ==
    LET Collided(charged) == IF collide THEN ForceCollide(charged, collideIterations, randomAngle)
                             ELSE charged
        Updated(collided) == [i \in 1..Len(ns) |-> WithValue(UpdatePosition, collided[i])]
    IN  WithValue(Updated, WithValue(Collided, IF charge THEN ForceManyBody(ns, a) ELSE ns))

\* libs: ManyBodyForce with its defaults (strength -30, distanceMin 1, no
\* distanceMax): force = strength * alpha / max(distance, distanceMin) along
\* the unit vector, for every pair at a distance above 0
LibsChargePush(n1, n2, a) ==
    LET Push(distance) ==
            LET force == -Div(30 * (a \div 100), Max(100, distance))
            IN  IF distance = 0 THEN ZeroPt
                ELSE Pt(Scale(force, Unit(n2.x - n1.x, distance)),
                        Scale(force, Unit(n2.y - n1.y, distance)))
    IN  WithValue(Push, Hypot(n2.x - n1.x, n2.y - n1.y))

RECURSIVE LibsChargeInner(_, _, _, _)
LibsChargeInner(ns, i, j, a) ==
    IF j > Len(ns) THEN ns
    ELSE LET Pushed(push) == [ns EXCEPT ![i] = AddVelocity(ns[i], NegPt(push)),
                                         ![j] = AddVelocity(ns[j], push)]
         IN  WithValue(LAMBDA next : LibsChargeInner(next, i, j + 1, a),
                       WithValue(Pushed, LibsChargePush(ns[i], ns[j], a)))

RECURSIVE LibsChargeOuter(_, _, _)
LibsChargeOuter(ns, i, a) ==
    IF i > Len(ns) THEN ns
    ELSE WithValue(LAMBDA next : LibsChargeOuter(next, i + 1, a), LibsChargeInner(ns, i, i + 1, a))

\* libs, tick, "Update node positions", for one node
LibsUpdatePosition(n) ==
    LET vx == Scale(n.vx, libsVelocityDecay)
        vy == Scale(n.vy, libsVelocityDecay)
    IN  [n EXCEPT !.vx = IF IsSet(n.fx) THEN 0 ELSE vx,
                  !.vy = IF IsSet(n.fy) THEN 0 ELSE vy,
                  !.x = IF IsSet(n.fx) THEN n.fx[1] ELSE n.x + vx,
                  !.y = IF IsSet(n.fy) THEN n.fy[1] ELSE n.y + vy]

LibsTickNodes(ns, a, charge) ==
    LET Updated(charged) == [i \in 1..Len(ns) |-> WithValue(LibsUpdatePosition, charged[i])]
    IN  WithValue(Updated, IF charge THEN LibsChargeOuter(ns, 1, a) ELSE ns)

\* an argument of alphaDecay(_) under which a run takes few ticks
AlphaDecays == {500}

\* createD3Simulation: alphaDecay(0.01), next to a fast decay
RunAlphaDecays == {10, 500}

\* alpha += (alphaTarget - alpha) * _alphaDecay, alphaTarget = 0
JsDecayedAlpha(a, decay) == a - (a * decay) \div 1000

\* libs: alpha *= (1 - alphaDecay)
LibsDecayedAlpha(a, decay) == (a * (1000 - decay)) \div 1000

\* js: the test that schedules the next tick
JsGoesOnAlways(a) == TRUE

JsGoesOn(a) == a > alphaMin

\* libs: the test that ends the simulation
LibsEnds(a) == a < alphaMin

NothingFired == [tick |-> 0, end |-> 0]

\* ForceSimulation.prototype.stop as called inside tick and from outside:
\* this.stepper names the timer set last; clearTimeout removes it when it
\* is still waiting
JsStopBody(pending, stepperNow) ==
    /\ simStopped' = TRUE
    /\ timers' = IF stepperNow /\ pending > 0 THEN pending - 1 ELSE pending
    /\ stepper' = FALSE
    /\ halted' = TRUE

\* the stopped flag checked on entry of tick
TickReturnsWhenStopped(stoppedNow) == stoppedNow

\* ForceSimulation.prototype.tick.  `pending` is the number of timers waiting
\* when tick is entered, alphaNow and stoppedNow are this.alpha and
\* this.stopped at that moment, and ends counts the 'end' events of the run.
JsTick(pending, alphaNow, stoppedNow, haltedNow, ends) ==
    IF TickReturnsWhenStopped(stoppedNow)
    THEN /\ timers' = pending
         /\ fired' = NothingFired
         /\ simStopped' = stoppedNow
         /\ simAlpha' = alphaNow
         /\ halted' = haltedNow
         /\ endCount' = ends
         /\ UNCHANGED <<simNodes, stepper>>
    ELSE \E randomAngle \in RandomAngles :
         LET a == JsDecayedAlpha(alphaNow, alphaDecay) IN
         /\ simNodes' = TickNodes(simNodes, alphaNow, withCharge, withCollide, randomAngle)
         /\ simAlpha' = a
         /\ IF JsGoesOn(a)
            THEN /\ timers' = pending + 1
                 /\ stepper' = TRUE
                 /\ fired' = [tick |-> 1, end |-> 0]
                 /\ simStopped' = stoppedNow
                 /\ halted' = haltedNow
                 /\ endCount' = ends
            ELSE /\ JsStopBody(pending, stepper)
                 /\ fired' = [tick |-> 1, end |-> 1]
                 /\ endCount' = ends + 1

\* libs: ForceSimulation.tick
LibsTick ==
    LET a == LibsDecayedAlpha(simAlpha, alphaDecay) IN
    /\ simNodes' = LibsTickNodes(simNodes, simAlpha, withCharge)
    /\ simAlpha' = a
    /\ UNCHANGED simStopped
    /\ IF LibsEnds(a)
       THEN /\ timers' = 0
            /\ stepper' = FALSE
            /\ halted' = TRUE
            /\ fired' = [tick |-> 1, end |-> 1]
            /\ endCount' = endCount + 1
       ELSE /\ fired' = [tick |-> 1, end |-> 0]
            /\ UNCHANGED <<timers, stepper, halted, endCount>>

\* what no method of the simulation changes once it is made
simConfig == <<impl, alphaDecay, withCharge, withCollide>>

\* restart(), called at most `most` times on one simulation
SimRestartUpTo(most) ==
    /\ impl # "none"
    /\ restarts < most
    /\ restarts' = restarts + 1
    /\ simCall' = "restart"
    /\ IF impl = "js"
       THEN JsTick(timers, 1000000, FALSE, FALSE, 0)
       ELSE /\ timers' = 1
            /\ stepper' = TRUE
            /\ halted' = FALSE
            /\ endCount' = 0
            /\ fired' = NothingFired
            /\ UNCHANGED <<simNodes, simAlpha, simStopped>>
    /\ UNCHANGED <<simConfig, directTicks, appVars, layoutVars>>

SimRestart == SimRestartUpTo(MaxRestarts)

\* setAlpha(_) (js; libs has no such method): a value below the present alpha
AlphaSettings == {250000}

SimSetAlpha(a) ==
    /\ impl = "js"
    /\ a < simAlpha
    /\ simAlpha' = a
    /\ simCall' = "setAlpha"
    /\ fired' = NothingFired
    /\ UNCHANGED <<simNodes, simStopped, timers, stepper, halted, endCount, simConfig,
                   restarts, directTicks, appVars, layoutVars>>

\* a timer set by tick (js) or the interval set by restart (libs) fires
SimTimerFires ==
    /\ impl # "none"
    /\ timers > 0
    /\ simCall' = "timer"
    /\ IF impl = "js"
       THEN JsTick(timers - 1, simAlpha, simStopped, halted, endCount)
       ELSE LibsTick
    /\ UNCHANGED <<simConfig, restarts, directTicks, appVars, layoutVars>>

\* tick() called by the page
SimDirectTick ==
    /\ impl # "none"
    /\ directTicks < MaxDirectTicks
    /\ directTicks' = directTicks + 1
    /\ simCall' = "tick"
    /\ IF impl = "js"
       THEN JsTick(timers, simAlpha, simStopped, halted, endCount)
       ELSE LibsTick
    /\ UNCHANGED <<simConfig, restarts, appVars, layoutVars>>

\* stop() called by the page
SimStop ==
    /\ impl # "none"
    /\ simCall' = "stop"
    /\ fired' = NothingFired
    /\ IF impl = "js"
       THEN JsStopBody(timers, stepper)
       ELSE /\ timers' = 0
            /\ stepper' = FALSE
            /\ halted' = TRUE
            /\ UNCHANGED simStopped
    /\ UNCHANGED <<simNodes, simAlpha, endCount, simConfig, restarts, directTicks,
                   appVars, layoutVars>>

(***************************************************************************)
(* Spec: the SkillData object under calls of its mutating methods.         *)
(* SpecApp: the application, whose handlers drive SkillData and            *)
(* UserProgress together, next to direct calls of the SkillData methods.   *)
(***************************************************************************)
\* initializeDataModels with nothing in local storage: new SkillData, new
\* UserProgress (loadProgress saves the default progress), syncWithSkillData
InitAppOn(graphs) ==
    /\ \E g \in graphs : LoadInitialSkills(g)
    /\ completedSkills = << >>
    /\ totalPoints = 0
    /\ categoryProgress = SyncStats(skillDefs, << >>, Len(skillDefs))
    /\ stored = StoredProgress("1.0.0", completedSkills, totalPoints, categoryProgress)
    /\ currentModal = 0
    /\ lastCall = <<"constructor", 0>>
    /\ lastReturn = TRUE

InitApp == InitAppOn(Graphs)

\* no ForceSimulation has been made
NoForceSimulation ==
    /\ impl = "none"
    /\ simNodes = << >>
    /\ simAlpha = 1000000
    /\ alphaDecay = defaultAlphaDecay
    /\ withCharge = FALSE
    /\ withCollide = FALSE
    /\ simStopped = FALSE
    /\ timers = 0
    /\ stepper = FALSE
    /\ halted = FALSE
    /\ fired = NothingFired
    /\ endCount = 0
    /\ restarts = 0
    /\ directTicks = 0
    /\ simCall = "none"

\* new SkillTree(skillData, userProgress), before its call of calculateLayout
InitLayout(e) ==
    /\ engine = e
    /\ pc = "Uninitialized"
    /\ position = DataPositions(skillDefs)
    /\ categoryPosition = [c \in Categories |-> CategoryData[c]]
    /\ connectionPaths = NoPaths
    /\ randomState = seed
    /\ categoryIndex = 1
    /\ myceliumThreads = << >>
    /\ positioned = {}
    /\ placements = [s \in Ids |-> 0]
    /\ growthSteps = 0
    /\ iteration = 0
    /\ hasOverlaps = FALSE
    /\ totalOverlapForce = 0
    /\ run = 1
    /\ runKind = "first"
    /\ usedMathRandom = FALSE
    /\ pathTimer = FALSE
    /\ callStack = << >>
    /\ rootCalls = << >>
    /\ nodes = << >>
    /\ simulation = FALSE
    /\ alpha = 1000000
    /\ stopped = FALSE
    /\ tickPending = FALSE
    /\ threw = FALSE
    /\ firstRun = [position |-> DataPositions(skillDefs),
                   categoryPosition |-> [c \in Categories |-> CategoryData[c]],
                   connectionPaths |-> NoPaths]

Init == InitApp /\ InitLayout("none") /\ NoForceSimulation

Next ==
    \/ \E id \in CallIds : CompleteSkill(id)
    \/ \E id \in CallIds : UncompleteSkill(id)
    \/ \E d \in ImportedData : ImportData(d)
    \/ ResetProgress

Spec == Init /\ [][Next]_vars

NextApp ==
    \/ \E id \in CallIds : CompleteSkill(id)
    \/ \E id \in CallIds : UncompleteSkill(id)
    \/ ResetProgress
    \/ \E id \in Ids : ShowSkillModal(id)
    \/ HideSkillModal
    \/ HandleSkillComplete
    \/ HandleSkillUncomplete

SpecApp == Init /\ [][NextApp]_vars

(***************************************************************************)
(* SpecLayout: a SkillTree is constructed and lays the skills out; the     *)
(* layout is then computed again, by the same SkillTree or by a new one.   *)
(***************************************************************************)
InitLayoutRun ==
    /\ InitApp
    /\ \E e \in {"mycelium", "radial", "branch"} : InitLayout(e)
    /\ NoForceSimulation

NextLayout ==
    \/ EstablishCategorySeedPoints
    \/ GrowMyceliumNetworks
    \/ GrowCategory
    \/ GrowthStep
    \/ BranchesGrown
    \/ ForceIteration
    \/ OptimizeConnectionPaths
    \/ EstablishRadialCategorySeedPoints
    \/ GenerateRadialSkillPositions
    \/ PrepareD3NodesAndLinks
    \/ EnhancedForceIteration
    \/ PathTimerFires
    \/ BranchLayout
    \/ LayoutCategorySkills
    \/ CallLayoutSkillBranch
    \/ LayoutSkillBranchStep
    \/ BranchLayoutDone
    \/ CalculateLayoutAgain
    \/ NewSkillTree

SpecLayout == InitLayoutRun /\ [][NextLayout]_vars

(***************************************************************************)
(* SpecSimulation: a SkillTree is constructed where d3 is defined; its     *)
(* simulation ticks on a timer; stopSimulation and restartSimulation are   *)
(* called at any time after the construction.                              *)
(***************************************************************************)
InitSimulation == InitApp /\ InitLayout("d3") /\ NoForceSimulation

NextSimulation ==
    \/ EstablishRadialCategorySeedPoints
    \/ GenerateRadialSkillPositions
    \/ PrepareD3NodesAndLinks
    \/ CreateD3Simulation
    \/ TickTimerFires
    \/ StopSimulation
    \/ RestartSimulation

SpecSimulation == InitSimulation /\ [][NextSimulation]_vars

(***************************************************************************)
(* SpecSkillData: addSkill called on the skill data that loadInitialSkills *)
(* has filled, next to completeSkill.                                      *)
(***************************************************************************)
\* skill data as loadInitialSkills leaves it: every skill names one of the
\* seven categories
LoadedGraphs == {GraphChain, GraphCross}

InitSkillData == InitAppOn(LoadedGraphs) /\ InitLayout("none") /\ NoForceSimulation

NextSkillData ==
    \/ \E def \in SkillDefinitions : AddSkill(def)
    \/ \E id \in CallIds : CompleteSkill(id)

SpecSkillData == InitSkillData /\ [][NextSkillData]_vars

(***************************************************************************)
(* SpecPersistence: the application's handlers, imports of progress and    *)
(* reloads of the page.                                                    *)
(***************************************************************************)
NextPersistence ==
    \/ \E id \in Ids : ShowSkillModal(id)
    \/ HideSkillModal
    \/ HandleSkillComplete
    \/ HandleSkillUncomplete
    \/ Reload
    \/ \E doc \in ImportDocuments : UserProgressImport(doc)
    \/ \E doc \in ImportDocuments : ControllerImport(doc)

SpecPersistence == InitSkillData /\ [][NextPersistence]_vars

(***************************************************************************)
(* SpecForce: one ForceSimulation under restart(), stop(), direct calls of *)
(* tick() and its timers.  SpecRun: a simulation that is restarted and     *)
(* then left to its timers, which fire as long as one is waiting.          *)
(***************************************************************************)
\* d3.forceSimulation(nodes) with forces registered and, for js,
\* alphaDecay(_) called; libs keeps the decay rate of its constructor
InitForceSimulation(decays) ==
    /\ impl \in {"js", "libs"}
    /\ simNodes \in SimNodeSets
    /\ simAlpha = 1000000
    /\ alphaDecay \in (IF impl = "js" THEN decays ELSE {defaultAlphaDecay})
    /\ withCharge \in BOOLEAN
    /\ withCollide \in (IF impl = "js" THEN BOOLEAN ELSE {FALSE})
    /\ simStopped = FALSE
    /\ timers = 0
    /\ stepper = FALSE
    /\ halted = FALSE
    /\ fired = NothingFired
    /\ endCount = 0
    /\ restarts = 0
    /\ directTicks = 0
    /\ simCall = "new"

InitForce == InitAppOn({GraphChain}) /\ InitLayout("none") /\ InitForceSimulation(AlphaDecays)

NextForce == SimRestart \/ SimTimerFires \/ SimDirectTick \/ SimStop

SpecForce == InitForce /\ [][NextForce]_vars

NextRun == SimRestart \/ SimTimerFires

\* the simulation as createD3Simulation configures it: the root pinned, the
\* charge and, where the implementation has it as a position force, the
\* collision force registered
InitRun ==
    /\ InitAppOn({GraphChain}) /\ InitLayout("none")
    /\ InitForceSimulation(RunAlphaDecays)
    /\ simNodes = SimNodesRootFirst
    /\ withCharge
    /\ impl = "js" => withCollide

SpecRun == InitRun /\ [][NextRun]_vars /\ WF_vars(SimTimerFires)

(***************************************************************************)
(* SpecTimers: one ForceSimulation under restart(), also while it runs,    *)
(* stop(), setAlpha() and its timers.                                      *)
(***************************************************************************)
NextTimers ==
    \/ SimRestartUpTo(MaxRunningRestarts)
    \/ SimTimerFires
    \/ SimStop
    \/ \E a \in AlphaSettings : SimSetAlpha(a)

SpecTimers == InitForce /\ [][NextTimers]_vars

(***************************************************************************)
(* SpecTreeSimulation: the SkillTree of SpecSimulation together with the   *)
(* nodes its ForceSimulation (js/d3-force-simulation.js) works on.         *)
(* createD3Simulation is taken in two stages: the simulation is made and   *)
(* configured, then restarted.                                             *)
(***************************************************************************)
\* new ForceSimulation(this.nodes): nodes.map(node => ({...node, ...})), the
\* copies carrying the fx and fy of prepareD3NodesAndLinks
CopiedNodes(ns) ==
    [s \in DOMAIN ns |->
        SimNode(ns[s].x, ns[s].y,
                IF ns[s].isRoot THEN Value(ns[s].x) ELSE NoValue,
                IF ns[s].isRoot THEN Value(ns[s].y) ELSE NoValue)]

\* what the stages of createD3Simulation and the timer leave alone
treeSimulationFrame ==
    <<engine, categoryPosition, growthVars, forceVars, runVars, usedMathRandom,
      pathTimer, branchVars, appVars>>

\* createD3Simulation up to this.simulation.restart(): d3.forceSimulation,
\* the forces, alphaDecay(0.01), velocityDecay(0.3) and the two listeners
NewForceSimulation ==
    /\ engine = "d3"
    /\ pc = "NodesPrepared"
    /\ impl = "none"
    /\ simulation' = TRUE
    /\ pc' = "SimulationCreated"
    /\ impl' = "js"
    /\ simNodes' = CopiedNodes(nodes)
    /\ alphaDecay' = 10
    /\ withCharge' = TRUE
    /\ withCollide' = TRUE
    /\ simCall' = "new"
    /\ UNCHANGED <<simAlpha, simStopped, timers, stepper, halted, fired, endCount,
                   restarts, directTicks>>
    /\ UNCHANGED <<position, connectionPaths, nodes, alpha, stopped, tickPending, threw>>
    /\ UNCHANGED treeSimulationFrame

\* createD3Simulation: this.simulation.restart(), which runs the first tick
\* with its listeners onSimulationTick and onSimulationEnd
RestartNewSimulation ==
    /\ engine = "d3"
    /\ pc = "SimulationCreated"
    /\ JsTick(timers, 1000000, FALSE, FALSE, 0)
    /\ RunTick(1000000)
    /\ restarts' = restarts + 1
    /\ simCall' = "restart"
    /\ threw' = FALSE
    /\ UNCHANGED <<simConfig, directTicks, simulation>>
    /\ UNCHANGED treeSimulationFrame

\* the timer set by tick fires: tick() with its listeners
TreeSimulationTimerFires ==
    /\ engine = "d3"
    /\ pc = "Simulating"
    /\ timers > 0
    /\ tickPending
    /\ ~stopped
    /\ JsTick(timers - 1, simAlpha, simStopped, halted, endCount)
    /\ RunTick(alpha)
    /\ simCall' = "timer"
    /\ threw' = FALSE
    /\ UNCHANGED <<simConfig, restarts, directTicks, simulation>>
    /\ UNCHANGED treeSimulationFrame

NextTreeSimulation ==
    \/ EstablishRadialCategorySeedPoints
    \/ GenerateRadialSkillPositions
    \/ PrepareD3NodesAndLinks
    \/ NewForceSimulation
    \/ RestartNewSimulation
    \/ TreeSimulationTimerFires

SpecTreeSimulation == InitSimulation /\ [][NextTreeSimulation]_vars

(***************************************************************************)
(* SkillTree: getOptimalPath and findSkillPath (skill-tree.js)             *)
(***************************************************************************)
\* skill.prerequisites.every(prereqId => completed.has(prereqId))
PrerequisitesMet(s, done) ==
    \A i \in 1..Len(skillDefs[s].prerequisites) : skillDefs[s].prerequisites[i] \in done

\* available.sort((a, b) => a.points - b.points)[0]: the first of the skills
\* with the fewest points (the sort is stable)
FewestPoints(available) ==
    available[CHOOSE i \in 1..Len(available) :
                 \A j \in 1..Len(available) :
                     \/ skillDefs[available[j]].points > skillDefs[available[i]].points
                     \/ (skillDefs[available[j]].points = skillDefs[available[i]].points
                            /\ j >= i)]

\* the while loop of getOptimalPath
RECURSIVE OptimalPathFrom(_, _, _)
OptimalPathFrom(remaining, done, path) ==
    LET available == SelectSeq(remaining, LAMBDA s : PrerequisitesMet(s, done)) IN
    IF Len(remaining) = 0 \/ Len(available) = 0 THEN path
    ELSE LET nextSkill == FewestPoints(available) IN
         OptimalPathFrom(SelectSeq(remaining, LAMBDA s : s # nextSkill),
                         done \cup {nextSkill}, Append(path, nextSkill))

\* getOptimalPath(categoryId): completed holds the completed skills of the
\* category, remaining the others, in declaration order
getOptimalPath(c) ==
    LET categorySkills == getSkillsByCategory(c)
        isSkillCompleted(s) == s \in SeqToSet(completedSkills)
    IN  OptimalPathFrom(SelectSeq(categorySkills, LAMBDA s : ~isSkillCompleted(s)),
                        {s \in SeqToSet(categorySkills) : isSkillCompleted(s)},
                        << >>)

\* queue.shift(): the place of the entry that is taken out of the queue
QueueShiftLast(queue) == Len(queue)

QueueShift(queue) == 1

\* for (const unlockedId of skill.unlocks) if (!visited.has(unlockedId))
\* queue.push(...), from the k-th entry of unlocks on; an id that names no
\* skill has nothing to push
RECURSIVE PathsPushed(_, _, _, _)
PathsPushed(currentId, k, visited, currentPath) ==
    IF currentId \notin Ids \/ k > Len(skillDefs[currentId].unlocks) THEN << >>
    ELSE LET unlockedId == skillDefs[currentId].unlocks[k] IN
         (IF unlockedId \notin visited
          THEN << [skill |-> unlockedId, path |-> currentPath] >> ELSE << >>)
             \o PathsPushed(currentId, k + 1, visited, currentPath)

\* the while loop of findSkillPath; null is NoValue
RECURSIVE FindPathFrom(_, _, _)
FindPathFrom(queue, visited, toSkillId) ==
    IF Len(queue) = 0 THEN NoValue
    ELSE LET at == QueueShift(queue)
             current == queue[at]
             rest == SubSeq(queue, 1, at - 1) \o SubSeq(queue, at + 1, Len(queue))
             currentPath == Append(current.path, current.skill)
         IN  IF current.skill \in visited THEN FindPathFrom(rest, visited, toSkillId)
             ELSE IF current.skill = toSkillId THEN Value(currentPath)
             ELSE FindPathFrom(rest \o PathsPushed(current.skill, 1,
                                                   visited \cup {current.skill},
                                                   currentPath),
                               visited \cup {current.skill}, toSkillId)

findSkillPath(fromSkillId, toSkillId) ==
    FindPathFrom(<< [skill |-> fromSkillId, path |-> << >>] >>, {}, toSkillId)

\* the queries leave every object as it is
GetOptimalPath(c) ==
    /\ lastCall' = <<"getOptimalPath", c>>
    /\ lastReturn' = getOptimalPath(c)
    /\ UNCHANGED <<skillDefs, dataVars, progressVars, currentModal, layoutVars, forceSimVars>>

FindSkillPath(fromSkillId, toSkillId) ==
    /\ lastCall' = <<"findSkillPath", <<fromSkillId, toSkillId>> >>
    /\ lastReturn' = findSkillPath(fromSkillId, toSkillId)
    /\ UNCHANGED <<skillDefs, dataVars, progressVars, currentModal, layoutVars, forceSimVars>>

\* buildSkillTreeStructure(getSkillsByCategory(categoryId)), as
\* generateRadialSkillPositions calls it for each category
BuildSkillTreeStructure(c) ==
    /\ lastCall' = <<"buildSkillTreeStructure", c>>
    /\ lastReturn' = buildSkillTreeStructure(getSkillsByCategory(c))
    /\ UNCHANGED <<skillDefs, dataVars, progressVars, currentModal, layoutVars, forceSimVars>>

(***************************************************************************)
(* SpecQueries: the queries of SkillTree asked between the application's   *)
(* completion handlers.                                                    *)
(***************************************************************************)
\* as emotions_selfaware_001 and emotions_stress_001: a skill behind a
\* prerequisite of another category, declared before a root skill of its own
\* category that unlocks it
GraphBridge ==
    << SkillDef(1, 3, NoSkills, <<2>>, Pt(25000, 15000)),
       SkillDef(2, 2, <<1>>, NoSkills, Pt(55000, 35000)),
       SkillDef(2, 5, NoSkills, <<4, 2>>, Pt(65000, 35000)),
       SkillDef(2, 4, <<3>>, NoSkills, Pt(65000, 45000)) >>

QueryGraphs == {GraphDiamond, GraphCycle, GraphCross, GraphBridge}

InitQueries == InitAppOn(QueryGraphs) /\ InitLayout("none") /\ NoForceSimulation

NextQueries ==
    \/ \E id \in Ids : ShowSkillModal(id)
    \/ HideSkillModal
    \/ HandleSkillComplete
    \/ HandleSkillUncomplete
    \/ \E c \in Categories : GetOptimalPath(c)
    \/ \E c \in Categories : BuildSkillTreeStructure(c)
    \/ \E fromSkillId, toSkillId \in CallIds : FindSkillPath(fromSkillId, toSkillId)

SpecQueries == InitQueries /\ [][NextQueries]_vars

(***************************************************************************)
(* C1: after construction and after any sequence of completeSkill,         *)
(* uncompleteSkill, importData and resetProgress calls, a skill is         *)
(* unlocked if and only if it has no prerequisites or every prerequisite   *)
(* is an existing, completed skill.                                        *)
(***************************************************************************)
UnlockedIffPrerequisitesCompleted ==
    \A s \in Ids :
        unlocked[s] <=>
            \/ Len(skillDefs[s].prerequisites) = 0
            \/ \A p \in SeqToSet(skillDefs[s].prerequisites) : p \in Ids /\ completed[p]

(***************************************************************************)
(* C2: completeSkill on a locked skill or an unknown id returns false and  *)
(* changes no completed, dateCompleted or unlocked value, and              *)
(* handleSkillComplete then leaves completedSkills and totalPoints alone.  *)
(***************************************************************************)
RejectedCompleteChangesNothing ==
    [][ \A id \in CallIds :
          (/\ lastCall' \in {<<"completeSkill", id>>, <<"handleSkillComplete", id>>}
           /\ ~(id \in Ids /\ unlocked[id]))
          => /\ lastReturn' = FALSE
             /\ UNCHANGED <<completed, dateCompleted, unlocked, completedSkills, totalPoints>>
      ]_vars

\* a locked skill's modal was open and handleSkillComplete was refused
LockedCompleteRefused ==
    /\ lastCall[1] = "handleSkillComplete"
    /\ lastCall[2] \in Ids
    /\ ~unlocked[lastCall[2]]
    /\ lastReturn = FALSE
    /\ \E s \in Ids : completed[s]


(***************************************************************************)
(* C3. Two runs of the full layout pipeline on equal skill graphs with     *)
(* equal configuration produce identical skill positions, category anchors *)
(* and connection paths, also when two skills enter the collision pass at  *)
(* identical positions: the layout of a newly constructed SkillTree over   *)
(* newly loaded skill data equals the layout of the construction before.   *)
(***************************************************************************)
FreshRunReproducesLayout ==
    (pc = "Ready" /\ runKind = "fresh") => LayoutOutput = firstRun

(***************************************************************************)
(* C4. A second call of calculateLayout on the same SkillTree with an      *)
(* unchanged skill graph reproduces the positions, anchors and paths of    *)
(* the first call.  Runs that called Math.random() are left aside, so that *)
(* only the positions left behind by the first call can make a difference. *)
(***************************************************************************)
SecondCallReproducesLayout ==
    (pc = "Ready" /\ runKind = "again" /\ ~usedMathRandom) => LayoutOutput = firstRun

(***************************************************************************)
(* C5. When branch growth has run for all categories, every skill has been *)
(* assigned a position by the growth pass.                                 *)
(***************************************************************************)
GrowthPositionsEverySkill ==
    (engine = "mycelium" /\ pc = "BranchesGrown") => \A s \in Ids : placements[s] >= 1

(***************************************************************************)
(* C6. After calculateLayout of the mycelium engine completes, every skill *)
(* position lies within [nodeRadius, canvas - nodeRadius] on both axes and *)
(* every category anchor within [200, canvas - 200] on both axes, whether  *)
(* or not branch growth placed the skill.                                  *)
(***************************************************************************)
WithinPadding(p, padding) ==
    /\ padding <= p.x /\ p.x <= canvasWidth - padding
    /\ padding <= p.y /\ p.y <= canvasHeight - padding

LayoutWithinBounds ==
    (engine = "mycelium" /\ pc = "Ready") =>
        /\ \A s \in Ids : WithinPadding(position[s], nodeRadius)
        /\ \A c \in Categories : WithinPadding(categoryPosition[c], 20000)

\* a layout is complete in which a skill that growth did not place, and that
\* was declared outside the padding, has been brought inside it
UnplacedSkillBroughtWithinBounds ==
    /\ engine = "mycelium" /\ pc = "Ready"
    /\ \E s \in Ids : /\ placements[s] = 0
                       /\ ~WithinPadding(skillDefs[s].position, nodeRadius)
                       /\ WithinPadding(position[s], nodeRadius)

(***************************************************************************)
(* C7. The collision pass executes at most its iteration ceiling of outer  *)
(* iterations and then returns, whether or not overlaps remain.            *)
(***************************************************************************)
IterationCeiling == IF engine = "radial" THEN maxForceIterations ELSE maxIterations

CollisionPassWithinCeiling ==
    /\ iteration <= IterationCeiling
    /\ pc = "Colliding" => iteration < IterationCeiling

\* the pass has returned at its ceiling with overlaps remaining
CeilingReachedWithOverlaps ==
    pc = "CollisionResolved" /\ iteration = IterationCeiling /\ hasOverlaps

(***************************************************************************)
(* C8. The collision pass stops before its iteration ceiling only in an    *)
(* outer iteration that found no pair of skills closer than the minimum    *)
(* separation.                                                             *)
(***************************************************************************)
\* the outer iteration that starts from the current positions finds a pair
\* closer than the minimum separation of the pass
PassFindsOverlaps ==
    IF engine = "radial" THEN EnhancedHasOverlaps(position) ELSE HasOverlaps(position)

\* this step is the last outer iteration of a pass that stops before its ceiling
PassStopsEarly ==
    pc # "CollisionResolved" /\ pc' = "CollisionResolved" /\ iteration' < IterationCeiling

EarlyStopOnlyWithoutOverlaps == [][PassStopsEarly => ~PassFindsOverlaps]_vars

(***************************************************************************)
(* C8, as the code has it.  The collision pass stops before its iteration  *)
(* ceiling only in an outer iteration that found no pair closer than the   *)
(* minimum separation, or, in applyEnhancedForceDirectedLayout, in an      *)
(* outer iteration of index above 20 whose totalOverlapForce is below 0.1. *)
(***************************************************************************)
EarlyStopWithoutOverlapsOrConverged ==
    [][PassStopsEarly =>
          \/ ~PassFindsOverlaps
          \/ /\ engine = "radial"
             /\ iteration > 20
             /\ TotalOverlapForce(position) < 10]_vars

\* the enhanced pass has stopped before its ceiling in an iteration that
\* found overlapping skills
StoppedEarlyWithOverlaps ==
    /\ engine = "radial" /\ pc = "CollisionResolved"
    /\ iteration < IterationCeiling /\ hasOverlaps

(***************************************************************************)
(* C9. Branch growth positions each skill at most once per layout run and  *)
(* dequeues no more threads than there are root skills and unlock edges,   *)
(* so it ends for every unlock graph, cyclic ones included.                *)
(***************************************************************************)
GrowthPlacesOnceAndEnds ==
    /\ \A s \in Ids : placements[s] <= 1
    /\ growthSteps <= Len(skillDefs) + Len(getSkillConnections)

\* growth is through although a placed skill was met again: through a second
\* parent, or on the way round a cycle
GrowthMetPlacedSkillAgain ==
    /\ pc = "BranchesGrown" \/ (engine = "branch" /\ pc = "Ready")
    /\ \E s \in Ids : placements[s] = 1 /\
          Cardinality({k \in 1..Len(getSkillConnections) :
                          /\ getSkillConnections[k][2] = s
                          /\ placements[getSkillConnections[k][1]] = 1
                          /\ skillDefs[getSkillConnections[k][1]].category
                               = skillDefs[s].category}) >= 2

(***************************************************************************)
(* C10. Whenever the layout is at rest (calculateLayout has returned and   *)
(* no simulation tick is pending), every unlock edge whose both endpoints  *)
(* exist has a cached connection path, and that path is what               *)
(* calculateOrganicConnectionPath returns for the current positions of the *)
(* two skills.                                                             *)
(***************************************************************************)
LayoutAtRest ==
    engine = "d3" /\ simulation /\ pc \in {"Simulating", "Ready"} /\ ~tickPending

ConnectionPathsCachedAtRest ==
    LayoutAtRest =>
        \A k \in 1..Len(getSkillConnections) :
            LET edge == getSkillConnections[k] IN
            /\ edge \in DOMAIN connectionPaths
            /\ connectionPaths[edge] =
                  calculateOrganicConnectionPath(position[edge[1]], position[edge[2]])

(***************************************************************************)
(* C11. When a skill references a category that does not exist,            *)
(* calculateLayout aborts before placing anything: it assigns no skill a   *)
(* position and does not finish normally.                                  *)
(***************************************************************************)
StructuralFailure == \E s \in Ids : skillDefs[s].category \notin Categories

StructuralFailureAbortsLayout ==
    StructuralFailure => (pc # "Ready" /\ \A s \in Ids : placements[s] = 0)

(***************************************************************************)
(* C12  After every tick that ran its body, every node whose fx is set has *)
(* x = fx and vx = 0 and every node whose fy is set has y = fy and vy = 0, *)
(* with the charge and the collision force registered or not.              *)
(***************************************************************************)
TickSnapsFixedNodes ==
    fired.tick = 1 =>
        \A i \in 1..Len(simNodes) :
            /\ IsSet(simNodes[i].fx) => (simNodes[i].x = simNodes[i].fx[1] /\ simNodes[i].vx = 0)
            /\ IsSet(simNodes[i].fy) => (simNodes[i].y = simNodes[i].fy[1] /\ simNodes[i].vy = 0)

\* a tick with both forces registered has brought a node pinned on the x axis
\* only to its fx while the forces moved it along y
TickSnappedHalfPinnedNode ==
    /\ impl = "js" /\ withCharge /\ withCollide
    /\ fired.tick = 1
    /\ simNodes = TickNodes(SimNodesHalfPinned, 1000000, TRUE, TRUE, 0)
    /\ simNodes[1].x = 52000 /\ simNodes[1].vx = 0
    /\ simNodes[1].y # SimNodesHalfPinned[1].y

(***************************************************************************)
(* C13  In the many-body force a fixed node never has its velocity         *)
(* changed, and for every pair of one fixed and one unfixed node within    *)
(* range the unfixed node's velocity receives the pair's repulsion, the    *)
(* same one whichever of the two comes first in the node list, and never   *)
(* one that drives it towards the fixed node.                              *)
(***************************************************************************)
\* what force(alpha) adds to the velocity of node k of the list ns
ChargeGain(ns, k, a) ==
    LET after == ForceManyBody(ns, a)
    IN  Pt(after[k].vx - ns[k].vx, after[k].vy - ns[k].vy)

FixedNodeRepelsInEitherOrder ==
    impl = "js" =>
        \A i, j \in 1..Len(simNodes) :
            LET f == simNodes[i]
                u == simNodes[j]
                fixedFirst == ChargeGain(<<f, u>>, 2, simAlpha)
                fixedLast == ChargeGain(<<u, f>>, 1, simAlpha)
            IN  (IsFixedNode(f) /\ ~IsFixedNode(u) /\ WithinChargeRange(f, u)) =>
                    /\ ChargeGain(<<f, u>>, 1, simAlpha) = ZeroPt
                    /\ ChargeGain(<<u, f>>, 2, simAlpha) = ZeroPt
                    /\ fixedFirst = fixedLast
                    /\ fixedLast.x * (u.x - f.x) + fixedLast.y * (u.y - f.y) >= 0

(***************************************************************************)
(* C14  A simulation started with restart() and left to its timers         *)
(* finishes: every tick lowers alpha by the factor 1 - alphaDecay; the     *)
(* tick after which alpha is no longer above alphaMin schedules no further *)
(* tick, stops the simulation and invokes the 'end' listeners, which no    *)
(* other tick does; 'end' is fired once per run, and every run that was   *)
(* started reaches the state in which no timer is waiting.                 *)
(***************************************************************************)
RunEnded == timers = 0 /\ halted /\ endCount = 1 /\ simAlpha <= alphaMin

TimerDrivenRunFinishes ==
    /\ []((fired.tick = 1 /\ simAlpha <= alphaMin)
             => (fired.end = 1 /\ ~stepper /\ halted /\ endCount = 1))
    /\ [](fired.end = 1 => (fired.tick = 1 /\ simAlpha <= alphaMin))
    /\ [](endCount <= 1)
    /\ [][(simCall' = "timer" /\ fired'.tick = 1)
             => /\ simAlpha' < simAlpha
                /\ Abs(simAlpha' * 1000 - simAlpha * (1000 - alphaDecay)) < 1000]_vars
    /\ (restarts > 0) ~> RunEnded

\* the run configured as createD3Simulation does has come to its end
RunOfCreatedSimulationEnded ==
    /\ impl = "js" /\ alphaDecay = 10
    /\ restarts = 1 /\ simCall = "timer"
    /\ fired = [tick |-> 1, end |-> 1]
    /\ RunEnded

(***************************************************************************)
(* C15  Once stop() has returned and until restart() is called, no tick,   *)
(* whether it comes from a timer that was waiting or from a direct call,   *)
(* changes a node, changes alpha or fires 'tick' or 'end' listeners, and a *)
(* further stop() changes nothing.                                         *)
(***************************************************************************)
StopHaltsTicks ==
    [][ /\ (halted /\ simCall' \in {"timer", "tick"})
            => (UNCHANGED <<simNodes, simAlpha, endCount>> /\ fired' = NothingFired)
        /\ (halted /\ simCall' = "stop")
            => UNCHANGED <<simNodes, simAlpha, simStopped, timers, stepper, halted, endCount>>
      ]_vars

(***************************************************************************)
(* C16  For any two skill positions calculateOrganicConnectionPath returns *)
(* the 2-point path [from, to] when their distance is below minDistance,   *)
(* and otherwise a 3-point path [from, control, to] whose control point    *)
(* lies within [50, canvasWidth - 50] x [50, canvasHeight - 50]; the paths *)
(* stored by optimizeConnectionPaths are those of the endpoint positions,  *)
(* whatever the place of the edge in the list of connections.              *)
(***************************************************************************)
OrganicPathShape(fromPos, toPos, path) ==
    IF Hypot(toPos.x - fromPos.x, toPos.y - fromPos.y) < minDistance
    THEN path = <<fromPos, toPos>>
    ELSE /\ Len(path) = 3
         /\ path[1] = fromPos /\ path[3] = toPos
         /\ path[2].x >= 5000 /\ path[2].x <= canvasWidth - 5000
         /\ path[2].y >= 5000 /\ path[2].y <= canvasHeight - 5000

OrganicPathsShapedByEndpoints ==
    /\ \A a, b \in Ids :
           OrganicPathShape(position[a], position[b],
                            calculateOrganicConnectionPath(position[a], position[b]))
    /\ (pc = "Ready" /\ ~pathTimer) =>
           \A e \in DOMAIN connectionPaths :
               /\ OrganicPathShape(position[e[1]], position[e[2]], connectionPaths[e])
               /\ \A g \in DOMAIN connectionPaths :
                      (position[g[1]] = position[e[1]] /\ position[g[2]] = position[e[2]])
                          => connectionPaths[g] = connectionPaths[e]

\* a finished layout holds a direct path and a curved one whose control point
\* lies off the straight line between its ends
DirectAndCurvedPathsStored ==
    /\ pc = "Ready" /\ ~pathTimer
    /\ \E e \in DOMAIN connectionPaths :
           connectionPaths[e] = <<position[e[1]], position[e[2]]>>
    /\ \E e \in DOMAIN connectionPaths :
           /\ Len(connectionPaths[e]) = 3
           /\ connectionPaths[e][2] = organicControlPoint(position[e[1]], position[e[2]])
           /\ connectionPaths[e][2] # Pt((position[e[1]].x + position[e[2]].x) \div 2,
                                         (position[e[1]].y + position[e[2]].y) \div 2)

(***************************************************************************)
(* C17  addSkill called with a definition that lacks one of skill_id,      *)
(* name, description, category, points and position returns false and      *)
(* leaves the skills map as it was.                                        *)
(***************************************************************************)
IncompleteDefinitionRejected ==
    [][(lastCall'[1] = "addSkill" /\ lastCall'[2].missing # {})
          => /\ lastReturn' = FALSE
             /\ UNCHANGED <<skillDefs, completed, dateCompleted, unlocked>>
      ]_vars

\* addSkill has returned false for a definition that lacks a field and bears
\* the id of a skill in the map, after a skill was added
IncompleteDefinitionWasRejected ==
    /\ lastCall[1] = "addSkill"
    /\ lastCall[2].missing # {}
    /\ lastCall[2].id \in Ids
    /\ lastReturn = FALSE
    /\ \E graph \in LoadedGraphs : Len(skillDefs) > Len(graph)

(***************************************************************************)
(* C18  addSkill rejects a definition whose category does not exist, so    *)
(* every skill in the map belongs to one of the existing categories.       *)
(***************************************************************************)
EverySkillInExistingCategory ==
    \A s \in Ids : skillDefs[s].category \in Categories

(***************************************************************************)
(* C19  After the page is loaded again with progress in local storage,     *)
(* every skill the stored progress records as completed is a completed     *)
(* skill of the progress, every skill whose prerequisites are all          *)
(* completed is unlocked, and every skill with an uncompleted prerequisite *)
(* is locked.                                                              *)
(***************************************************************************)
ReloadRestoresUnlockedSkills ==
    lastCall[1] = "reload" =>
        /\ \A s \in SeqToSet(stored.completedSkills) : s \in SeqToSet(completedSkills)
        /\ \A s \in Ids :
               unlocked[s] <=>
                   \A p \in SeqToSet(skillDefs[s].prerequisites) :
                       p \in SeqToSet(completedSkills)

(***************************************************************************)
(* C20  An import that is given text that does not parse, data that fails  *)
(* the validation of the method called, or data of another major version   *)
(* reports failure and leaves completedSkills, totalPoints and             *)
(* categoryProgress as they were, for UserProgress.importProgress and for  *)
(* ImportExportController.importProgress.                                  *)
(***************************************************************************)
FailedImportChangesNothing ==
    [][\A doc \in ImportDocuments :
          (\/ /\ UserProgressImport(doc)
              /\ (doc.json # "object" \/ ~validateImportData(doc)
                     \/ ~isValidVersion(doc.version))
           \/ /\ ControllerImport(doc)
              /\ (doc.json # "object" \/ ~ControllerValidates(doc)
                     \/ ~isValidVersion(doc.version)))
          => /\ lastReturn' = FALSE
             /\ UNCHANGED <<completedSkills, totalPoints, categoryProgress>>
      ]_vars

(***************************************************************************)
(* C21  Under handleSkillComplete and handleSkillUncomplete from empty     *)
(* progress, totalPoints is the sum of the points of the skills in         *)
(* completedSkills and no skill occurs twice in completedSkills;           *)
(* completing a skill that is in completedSkills awards no points, and     *)
(* uncompleting one that is not deducts none.                              *)
(***************************************************************************)
\* the points of the skills s[1], ..., s[k]
RECURSIVE PointsOf(_, _)
PointsOf(s, k) == IF k = 0 THEN 0 ELSE PointsOf(s, k - 1) + skillDefs[s[k]].points

TotalPointsSumOverCompletedSkills ==
    /\ [](totalPoints = PointsOf(completedSkills, Len(completedSkills)))
    /\ [](\A i, j \in 1..Len(completedSkills) :
             completedSkills[i] = completedSkills[j] => i = j)
    /\ [][(HandleSkillComplete /\ currentModal \in SeqToSet(completedSkills))
             => UNCHANGED <<completedSkills, totalPoints>>]_vars
    /\ [][(HandleSkillUncomplete /\ currentModal \notin SeqToSet(completedSkills))
             => UNCHANGED <<completedSkills, totalPoints>>]_vars

\* handleSkillUncomplete has taken one of two completed skills out again:
\* the points of the other are left
UncompletedOneOfTwoSkills ==
    /\ lastCall[1] = "handleSkillUncomplete"
    /\ lastReturn = TRUE
    /\ Len(completedSkills) = 1
    /\ lastCall[2] \notin SeqToSet(completedSkills)
    /\ completed[completedSkills[1]]
    /\ totalPoints = skillDefs[completedSkills[1]].points
    /\ \E s \in Ids : ~completed[s] /\ completedSkills[1] \in SeqToSet(skillDefs[s].prerequisites)

(***************************************************************************)
(* C22  Two skills that enter the collision resolution pass at one         *)
(* position, with no other skill within the minimum separation of either,  *)
(* leave the pass at a distance of at least the minimum separation.        *)
(***************************************************************************)
\* skills i and j enter the pass of the first run at the position both were
\* declared at: the stage before the pass has placed neither
EnterPassAtOnePosition(i, j) ==
    /\ run = 1
    /\ placements[i] = 0 /\ placements[j] = 0
    /\ skillDefs[i].position = skillDefs[j].position

\* no third skill is within the minimum separation of i or j
NoOtherSkillNearby(i, j, separation) ==
    \A t \in Ids \ {i, j} :
        Distance(position, i, t) >= separation /\ Distance(position, j, t) >= separation

IdenticalPositionsSeparated ==
    (engine \in {"mycelium", "radial"} /\ pc = "CollisionResolved") =>
        \A pr \in SkillPairs :
            (EnterPassAtOnePosition(pr[1], pr[2])
                /\ NoOtherSkillNearby(pr[1], pr[2], enhancedMinDistance))
            => Distance(position, pr[1], pr[2]) >= minDistance

(***************************************************************************)
(* C23  After every tick of the timer-driven simulation, and when it has   *)
(* ended, the position of each skill is the (x, y) of the skill's node     *)
(* inside the simulation, brought within the canvas for a non-root node.   *)
(***************************************************************************)
SkillPositionsFollowSimulation ==
    (impl = "js" /\ fired.tick = 1) =>
        \A s \in Ids :
            position[s] = IF IsRootSkill(s) THEN Pt(simNodes[s].x, simNodes[s].y)
                          ELSE KeepWithinBounds(Pt(simNodes[s].x, simNodes[s].y), nodeRadius)

(***************************************************************************)
(* C24  getOptimalPath(category) returns a list without repeats of the     *)
(* skills of the category that are not completed, in which every           *)
(* prerequisite of a listed skill is a completed skill or stands earlier   *)
(* in the list, and in which each skill has the fewest points of the       *)
(* skills available at its place.                                          *)
(***************************************************************************)
\* the skills of category c that can be learned once path[1..k] are: not
\* completed, not among path[1..k], every prerequisite completed or there
AvailableAfter(c, path, k) ==
    LET learned == SeqToSet(completedSkills) \cup {path[j] : j \in 1..k} IN
    {s \in Ids : /\ skillDefs[s].category = c
                 /\ s \notin learned
                 /\ SeqToSet(skillDefs[s].prerequisites) \subseteq learned}

ValidLearningOrder(c, path) ==
    /\ \A i, j \in 1..Len(path) : path[i] = path[j] => i = j
    /\ \A k \in 1..Len(path) :
           /\ path[k] \in Ids
           /\ skillDefs[path[k]].category = c
           /\ path[k] \notin SeqToSet(completedSkills)
           /\ \A p \in SeqToSet(skillDefs[path[k]].prerequisites) :
                  p \in SeqToSet(completedSkills) \/ \E j \in 1..(k - 1) : path[j] = p

FewestPointsTakenNext(c, path) ==
    \A k \in 1..Len(path) :
        \A s \in AvailableAfter(c, path, k - 1) :
            skillDefs[path[k]].points <= skillDefs[s].points

OptimalPathInLearningOrder ==
    lastCall[1] = "getOptimalPath" =>
        /\ ValidLearningOrder(lastCall[2], lastReturn)
        /\ FewestPointsTakenNext(lastCall[2], lastReturn)

(***************************************************************************)
(* C25  findSkillPath(from, to) returns, on every unlock graph, a sequence *)
(* of ids that starts with from, ends with to, follows an unlocks edge at  *)
(* each step and has the fewest edges of all such sequences; it returns    *)
(* null exactly when to cannot be reached from from along unlocks edges.   *)
(***************************************************************************)
\* b is an entry of the unlocks of the skill a
UnlocksEdge(a, b) == a \in Ids /\ b \in SeqToSet(skillDefs[a].unlocks)

\* the ids reached from the set `reached` along at most k unlocks edges
RECURSIVE ReachedWithin(_, _)
ReachedWithin(reached, k) ==
    IF k = 0 THEN reached
    ELSE ReachedWithin(reached \cup {b \in CallIds : \E a \in reached : UnlocksEdge(a, b)},
                       k - 1)

ShortestUnlockPath(fromSkillId, toSkillId, result) ==
    LET reachable == toSkillId \in ReachedWithin({fromSkillId}, Cardinality(CallIds)) IN
    /\ result = NoValue <=> ~reachable
    /\ result # NoValue =>
           LET path == result[1] IN
           /\ Len(path) >= 1
           /\ path[1] = fromSkillId
           /\ path[Len(path)] = toSkillId
           /\ \A i \in 1..(Len(path) - 1) : UnlocksEdge(path[i], path[i + 1])
           /\ \A k \in 0..(Len(path) - 2) : toSkillId \notin ReachedWithin({fromSkillId}, k)

FindSkillPathIsShortest ==
    lastCall[1] = "findSkillPath" =>
        ShortestUnlockPath(lastCall[2][1], lastCall[2][2], lastReturn)

\* null was returned for a skill that cannot be reached, after a search that
\* started on a cycle of unlocks edges
SearchOnCycleReturnedNull ==
    /\ lastCall[1] = "findSkillPath"
    /\ lastReturn = NoValue
    /\ lastCall[2][1] \in Ids
    /\ lastCall[2][2] \in Ids
    /\ \E u \in Ids : /\ u # lastCall[2][1]
                     /\ UnlocksEdge(lastCall[2][1], u)
                     /\ UnlocksEdge(u, lastCall[2][1])

(***************************************************************************)
(* C26  The roots that buildSkillTreeStructure returns are the skills of   *)
(* the category that have no parent in the finished structure or have no   *)
(* prerequisites, whatever the order in which the skills are declared.     *)
(***************************************************************************)
\* the orders in which the skills of a list can be declared
Orders(categorySkills) ==
    {order \in [1..Len(categorySkills) -> SeqToSet(categorySkills)] :
        \A i, j \in 1..Len(categorySkills) : order[i] = order[j] => i = j}

RootsAreSkillsWithoutParents ==
    lastCall[1] = "buildSkillTreeStructure" =>
        LET categorySkills == getSkillsByCategory(lastCall[2]) IN
        /\ SeqToSet(lastReturn.roots)
              = {s \in SeqToSet(categorySkills) :
                    \/ lastReturn.parents[s] = << >>
                    \/ Len(skillDefs[s].prerequisites) = 0}
        /\ \A order \in Orders(categorySkills) :
               SeqToSet(buildSkillTreeStructure(order).roots) = SeqToSet(lastReturn.roots)

(***************************************************************************)
(* C27  At most one tick callback of a ForceSimulation is waiting in the   *)
(* timer queue at any time, under every interleaving of restart(), stop(), *)
(* setAlpha() and timer firings.                                           *)
(***************************************************************************)
AtMostOneTickPending == timers <= 1

(***************************************************************************)
(* C28  uncompleteSkill(s) returns true for every existing skill s, also   *)
(* when a completed skill lists s as a prerequisite; it sets s.completed   *)
(* to false and s.dateCompleted to null, changes the completed flag of no  *)
(* other skill and recomputes every unlocked flag, so that a skill that    *)
(* lists s as a prerequisite keeps its completed flag and is locked.       *)
(***************************************************************************)
UncompleteTouchesOneSkill ==
    [][\A s \in Ids :
          lastCall' = <<"uncompleteSkill", s>> =>
              /\ lastReturn' = TRUE
              /\ ~completed'[s]
              /\ dateCompleted'[s] = 0
              /\ \A t \in Ids \ {s} :
                     completed'[t] = completed[t] /\ dateCompleted'[t] = dateCompleted[t]
              /\ \A t \in Ids :
                     unlocked'[t] <=>
                         \/ Len(skillDefs[t].prerequisites) = 0
                         \/ \A p \in SeqToSet(skillDefs[t].prerequisites) :
                                p \in Ids /\ completed'[p]
              /\ \A d \in Ids :
                     s \in SeqToSet(skillDefs[d].prerequisites) => ~unlocked'[d]
              /\ skillDefs' = skillDefs
      ]_vars

\* uncompleteSkill has returned true for a skill that a completed skill lists
\* as a prerequisite: the dependent is still completed, and locked
DependentLeftCompletedAndLocked ==
    /\ lastCall[1] = "uncompleteSkill"
    /\ lastCall[2] \in Ids
    /\ lastReturn = TRUE
    /\ ~completed[lastCall[2]]
    /\ \E d \in Ids : /\ lastCall[2] \in SeqToSet(skillDefs[d].prerequisites)
                      /\ completed[d]
                      /\ dateCompleted[d] = 1
                      /\ ~unlocked[d]

====
